---- MODULE Spec2Model ----
(***************************************************************************)
(* Model of the Mermaid diagram parser and validator (mermaid-parser.js)   *)
(* and of the validate command of the CLI.                                 *)
(*                                                                         *)
(* Text is a sequence of one-character strings.  Every regular expression  *)
(* of the source is written as a list of items and run by one backtracking *)
(* matcher (exec) that tries alternatives in the order a JavaScript        *)
(* engine tries them, so a match, its extent and its capture groups are    *)
(* those String.prototype.match returns.                                   *)
(***************************************************************************)
EXTENDS Integers, Sequences, FiniteSets, TLC

\* ------------------------------------------------------------- characters

LowerAlpha == <<"a","b","c","d","e","f","g","h","i","j","k","l","m",
                "n","o","p","q","r","s","t","u","v","w","x","y","z">>
UpperAlpha == <<"A","B","C","D","E","F","G","H","I","J","K","L","M",
                "N","O","P","Q","R","S","T","U","V","W","X","Y","Z">>
DigitChars == <<"0","1","2","3","4","5","6","7","8","9">>

Range(s) == {s[k] : k \in DOMAIN s}

\* \w
WordChars == Range(LowerAlpha) \cup Range(UpperAlpha) \cup Range(DigitChars) \cup {"_"}
\* \s (the white space the inputs are written with)
SpaceChars == {" ", "\t", "\n", "\r"}
\* what . does not match
LineBreaks == {"\n", "\r"}

toLowerChar(c) ==
  IF c \in Range(UpperAlpha)
  THEN LowerAlpha[CHOOSE k \in DOMAIN UpperAlpha : UpperAlpha[k] = c]
  ELSE c

toUpperChar(c) ==
  IF c \in Range(LowerAlpha)
  THEN UpperAlpha[CHOOSE k \in DOMAIN LowerAlpha : LowerAlpha[k] = c]
  ELSE c

toLowerCase(s) == [k \in DOMAIN s |-> toLowerChar(s[k])]
toUpperCase(s) == [k \in DOMAIN s |-> toUpperChar(s[k])]

\* const name = value; Body(name)
Const(value, Body(_)) == Body(value)

\* ------------------------------------------------------ String.prototype

RECURSIVE trimStart(_)
trimStart(s) ==
  IF s # <<>> /\ Head(s) \in SpaceChars THEN trimStart(Tail(s)) ELSE s

RECURSIVE trimEnd(_)
trimEnd(s) ==
  IF s # <<>> /\ s[Len(s)] \in SpaceChars
  THEN trimEnd(SubSeq(s, 1, Len(s) - 1))
  ELSE s

trim(s) == trimEnd(trimStart(s))

\* s.startsWith(p, pos - 1)
At(s, pos, p) ==
  /\ pos + Len(p) - 1 <= Len(s)
  /\ \A k \in 1..Len(p) : s[pos + k - 1] = p[k]

startsWith(s, p) == At(s, 1, p)

includes(s, p) == \E pos \in 1..(Len(s) + 1) : At(s, pos, p)

\* s.split('\n')
RECURSIVE split(_)
split(s) ==
  IF \E k \in DOMAIN s : s[k] = "\n"
  THEN LET k == CHOOSE j \in DOMAIN s : s[j] = "\n" /\ \A h \in 1..(j - 1) : s[h] # "\n"
       IN  <<SubSeq(s, 1, k - 1)>> \o split(SubSeq(s, k + 1, Len(s)))
  ELSE <<s>>

\* lines.filter((l) => l.trim())
RECURSIVE filterNonBlank(_)
filterNonBlank(a) ==
  IF a = <<>> THEN <<>>
  ELSE (IF trim(Head(a)) # <<>> THEN <<Head(a)>> ELSE <<>>) \o filterNonBlank(Tail(a))

\* String(n) for a non-negative integer n
RECURSIVE toDigits(_)
toDigits(n) ==
  IF n < 10 THEN <<DigitChars[n + 1]>>
  ELSE toDigits(n \div 10) \o <<DigitChars[(n % 10) + 1]>>

\* ----------------------------------------------------- regular expressions

\* The value of a capture group that took no part in the match (undefined).
undefined == <<"undefined">>

\* The items of a pattern.  Lit: a literal.  Alt: literals tried in order.
\* Cls: a character class repeated min..max times (max < 0: unbounded),
\* greedy or lazy.  Opt: a group followed by ?.  Open/Close: the parentheses
\* of capture group g.  Bol, Eol: ^ and $.  Wb: \b.
Item(t, s, alts, set, neg, min, max, lazy, g, items) ==
  [t |-> t, s |-> s, alts |-> alts, set |-> set, neg |-> neg, min |-> min,
   max |-> max, lazy |-> lazy, g |-> g, items |-> items]

Lit(s)      == Item("lit", s, <<>>, {}, FALSE, 0, 0, FALSE, 0, <<>>)
Alt(alts)   == Item("alt", <<>>, alts, {}, FALSE, 0, 0, FALSE, 0, <<>>)
In(set)     == Item("cls", <<>>, <<>>, set, FALSE, 1, 1, FALSE, 0, <<>>)
Plus(set)   == Item("cls", <<>>, <<>>, set, FALSE, 1, -1, FALSE, 0, <<>>)
Star(set)   == Item("cls", <<>>, <<>>, set, FALSE, 0, -1, FALSE, 0, <<>>)
NotPlus(set) == Item("cls", <<>>, <<>>, set, TRUE, 1, -1, FALSE, 0, <<>>)
NotStar(set) == Item("cls", <<>>, <<>>, set, TRUE, 0, -1, FALSE, 0, <<>>)
NotStarLazy(set) == Item("cls", <<>>, <<>>, set, TRUE, 0, -1, TRUE, 0, <<>>)
Opt(items)  == Item("opt", <<>>, <<>>, {}, FALSE, 0, 0, FALSE, 0, items)
Open(g)     == Item("open", <<>>, <<>>, {}, FALSE, 0, 0, FALSE, g, <<>>)
Close(g)    == Item("close", <<>>, <<>>, {}, FALSE, 0, 0, FALSE, g, <<>>)
Bol         == Item("bol", <<>>, <<>>, {}, FALSE, 0, 0, FALSE, 0, <<>>)
Eol         == Item("eol", <<>>, <<>>, {}, FALSE, 0, 0, FALSE, 0, <<>>)
Wb          == Item("wb", <<>>, <<>>, {}, FALSE, 0, 0, FALSE, 0, <<>>)

NoMatch == [ok |-> FALSE, start |-> 0, end |-> 0, from |-> <<>>, v |-> <<>>]

InClass(c, it) == IF it.neg THEN c \notin it.set ELSE c \in it.set

\* The longest run of the class at pos, no longer than the item's max.
RECURSIVE Run(_, _, _, _)
Run(text, pos, it, n) ==
  IF /\ pos + n <= Len(text)
     /\ (it.max < 0 \/ n < it.max)
     /\ InClass(text[pos + n], it)
  THEN Run(text, pos, it, n + 1)
  ELSE n

IsWordAt(text, pos) == pos >= 1 /\ pos <= Len(text) /\ text[pos] \in WordChars

RECURSIVE MatchItems(_, _, _, _)
RECURSIVE TryAlts(_, _, _, _, _, _)
RECURSIVE TryCount(_, _, _, _, _, _, _)

\* The first way, in the engine's order, to match items at pos; c carries
\* the capture groups' start positions (from) and values (v).
MatchItems(text, items, pos, c) ==
  IF items = <<>> THEN [c EXCEPT !.ok = TRUE, !.end = pos]
  ELSE
    LET it == Head(items)
        rest == Tail(items)
    IN  CASE it.t = "lit" ->
               IF At(text, pos, it.s)
               THEN MatchItems(text, rest, pos + Len(it.s), c)
               ELSE NoMatch
          [] it.t = "alt" -> TryAlts(text, it.alts, 1, rest, pos, c)
          [] it.t = "cls" ->
               LET n == Run(text, pos, it, 0)
               IN  IF n < it.min THEN NoMatch
                   ELSE IF it.lazy
                        THEN TryCount(text, rest, pos, c, it.min, n, 1)
                        ELSE TryCount(text, rest, pos, c, n, it.min, -1)
          [] it.t = "opt" ->
               LET r == MatchItems(text, it.items \o rest, pos, c)
               IN  IF r.ok THEN r ELSE MatchItems(text, rest, pos, c)
          [] it.t = "open" ->
               MatchItems(text, rest, pos, [c EXCEPT !.from[it.g] = pos])
          [] it.t = "close" ->
               MatchItems(text, rest, pos,
                          [c EXCEPT !.v[it.g] = SubSeq(text, c.from[it.g], pos - 1)])
          [] it.t = "bol" ->
               IF pos = 1 THEN MatchItems(text, rest, pos, c) ELSE NoMatch
          [] it.t = "eol" ->
               IF pos = Len(text) + 1 THEN MatchItems(text, rest, pos, c) ELSE NoMatch
          [] it.t = "wb" ->
               IF IsWordAt(text, pos - 1) # IsWordAt(text, pos)
               THEN MatchItems(text, rest, pos, c)
               ELSE NoMatch

TryAlts(text, alts, k, rest, pos, c) ==
  IF k > Len(alts) THEN NoMatch
  ELSE LET r == IF At(text, pos, alts[k])
                THEN MatchItems(text, rest, pos + Len(alts[k]), c)
                ELSE NoMatch
       IN  IF r.ok THEN r ELSE TryAlts(text, alts, k + 1, rest, pos, c)

\* Repetition counts from k to last in steps of d (-1: greedy, 1: lazy).
TryCount(text, rest, pos, c, k, last, d) ==
  LET r == MatchItems(text, rest, pos + k, c)
  IN  IF r.ok THEN r
      ELSE IF k = last THEN NoMatch
      ELSE TryCount(text, rest, pos, c, k + d, last, d)

RECURSIVE SearchFrom(_, _, _, _)
SearchFrom(text, items, groups, pos) ==
  IF pos > Len(text) + 1 THEN NoMatch
  ELSE LET r == MatchItems(text, items, pos,
                           [ok |-> FALSE, start |-> pos, end |-> pos,
                            from |-> [g \in 1..groups |-> 0],
                            v |-> [g \in 1..groups |-> undefined]])
       IN  IF r.ok THEN r ELSE SearchFrom(text, items, groups, pos + 1)

\* text.match(re) for a pattern without the g flag: the leftmost match.
exec(text, re) == SearchFrom(text, re.items, re.groups, 1)

\* text.replace(re, '')
replaceWithEmpty(text, re) ==
  Const(exec(text, re), LAMBDA m :
    IF m.ok
    THEN SubSeq(text, 1, m.start - 1) \o SubSeq(text, m.end, Len(text))
    ELSE text)

\* The number of non-overlapping matches: (text.match(/re/g) || []).length
RECURSIVE countMatches(_, _, _)
countMatches(text, re, pos) ==
  Const(SearchFrom(text, re.items, re.groups, pos), LAMBDA m :
    IF ~m.ok THEN 0
    ELSE 1 + countMatches(text, re, IF m.end > m.start THEN m.end ELSE m.end + 1))

Re(items, groups) == [items |-> items, groups |-> groups]

\* null, for a value that is otherwise a string
null == <<"null">>

Openers == {"[", "(", "{"}
Closers == {"]", ")", "}"}

\* ------------------------------------------------------------ the lexicon

Delimited(open, close) ==
  Re(<<Bol, Lit(open), Open(1), NotPlus({close[1]}), Close(1), Lit(close), Eol>>, 1)

\* Object.entries(SHAPE_MAPPINGS), in insertion order
SHAPE_MAPPINGS ==
  << [shape |-> "stadium", pattern |-> Delimited(<<"(", "[">>, <<"]", ")">>),
      style |-> "rounded=1;arcSize=50;whiteSpace=wrap;html=1;",
      fillColor |-> "#d5e8d4", strokeColor |-> "#82b366"],
     [shape |-> "circle", pattern |-> Delimited(<<"(", "(">>, <<")", ")">>),
      style |-> "ellipse;whiteSpace=wrap;html=1;",
      fillColor |-> "#f8cecc", strokeColor |-> "#b85450"],
     [shape |-> "subroutine", pattern |-> Delimited(<<"[", "[">>, <<"]", "]">>),
      style |-> "shape=process;whiteSpace=wrap;html=1;",
      fillColor |-> "#e1d5e7", strokeColor |-> "#9673a6"],
     [shape |-> "rectangle", pattern |-> Delimited(<<"[">>, <<"]">>),
      style |-> "rounded=0;whiteSpace=wrap;html=1;",
      fillColor |-> "#dae8fc", strokeColor |-> "#6c8ebf"],
     [shape |-> "roundedRect", pattern |-> Delimited(<<"(">>, <<")">>),
      style |-> "rounded=1;whiteSpace=wrap;html=1;",
      fillColor |-> "#fff2cc", strokeColor |-> "#d6b656"],
     [shape |-> "diamond", pattern |-> Delimited(<<"{">>, <<"}">>),
      style |-> "rhombus;whiteSpace=wrap;html=1;",
      fillColor |-> "#ffe6cc", strokeColor |-> "#d79b00"] >>

RectangleMapping == SHAPE_MAPPINGS[4]

\* A flowchart node; id is filled in by the caller.
ShapeInfo(label, m) ==
  [id |-> null, label |-> label, shape |-> m.shape, style |-> m.style,
   fillColor |-> m.fillColor, strokeColor |-> m.strokeColor]

RECURSIVE parseNodeShapeFrom(_, _)
parseNodeShapeFrom(nodeContent, k) ==
  IF k > Len(SHAPE_MAPPINGS)
  THEN ShapeInfo(trim(nodeContent), RectangleMapping)
  ELSE Const(exec(nodeContent, SHAPE_MAPPINGS[k].pattern), LAMBDA match :
         IF match.ok
         THEN ShapeInfo(trim(match.v[1]), SHAPE_MAPPINGS[k])
         ELSE parseNodeShapeFrom(nodeContent, k + 1))

\* parseNodeShape trying the one-character delimiters first (from rectangle
\* on) and never the two-character ones: the order C5 rules out.
parseNodeShapeGenericFirst(nodeContent) == parseNodeShapeFrom(nodeContent, 4)

parseNodeShape(nodeContent) == parseNodeShapeFrom(nodeContent, 1)

\* Object.entries(arrowTypes), in insertion order
arrowTypes ==
  << [pattern |-> <<"-", "-", ">">>, type |-> "solid", arrow |-> "classic", hasLabel |-> FALSE],
     [pattern |-> <<"-", "-", "-">>, type |-> "solid", arrow |-> "none", hasLabel |-> FALSE],
     [pattern |-> <<"-", ".", "-", ">">>, type |-> "dashed", arrow |-> "classic", hasLabel |-> FALSE],
     [pattern |-> <<"-", ".", "-">>, type |-> "dashed", arrow |-> "none", hasLabel |-> FALSE],
     [pattern |-> <<"=", "=", ">">>, type |-> "thick", arrow |-> "classic", hasLabel |-> FALSE],
     [pattern |-> <<"-", "-", ">", "|">>, type |-> "solid", arrow |-> "classic", hasLabel |-> TRUE],
     [pattern |-> <<"-", "-", "|">>, type |-> "solid", arrow |-> "none", hasLabel |-> TRUE] >>

ArrowConfig(a) == [type |-> a.type, arrow |-> a.arrow, hasLabel |-> a.hasLabel]

RECURSIVE parseArrowFrom(_, _)
parseArrowFrom(arrowStr, k) ==
  IF k > Len(arrowTypes)
  THEN [type |-> "solid", arrow |-> "classic", hasLabel |-> FALSE]
  ELSE IF includes(arrowStr, arrowTypes[k].pattern)
  THEN ArrowConfig(arrowTypes[k])
  ELSE parseArrowFrom(arrowStr, k + 1)

parseArrow(arrowStr) == parseArrowFrom(arrowStr, 1)

\* /^(\w+)([\[\(\{].*?[\]\)\}])?\s*(-->|---|-\.->|-\.-|==>)(\|([^|]*)\|)?\s*(.+)$/
connectionPattern ==
  Re(<<Bol, Open(1), Plus(WordChars), Close(1),
       Opt(<<Open(2), In(Openers), NotStarLazy(LineBreaks), In(Closers), Close(2)>>),
       Star(SpaceChars),
       Open(3), Alt(<<<<"-", "-", ">">>, <<"-", "-", "-">>, <<"-", ".", "-", ">">>, <<"-", ".", "-">>, <<"=", "=", ">">>>>), Close(3),
       Opt(<<Open(4), Lit(<<"|">>), Open(5), NotStar({"|"}), Close(5), Lit(<<"|">>), Close(4)>>),
       Star(SpaceChars),
       Open(6), NotPlus(LineBreaks), Close(6), Eol>>, 6)

\* /^(\w+)([\[\(\{].*?[\]\)\}])$/
inlineDefPattern ==
  Re(<<Bol, Open(1), Plus(WordChars), Close(1),
       Open(2), In(Openers), NotStarLazy(LineBreaks), In(Closers), Close(2), Eol>>, 2)

\* null, for a node
nullNode ==
  [id |-> null, label |-> <<>>, shape |-> "null", style |-> "", fillColor |-> "",
   strokeColor |-> ""]

nullConnection ==
  [matched |-> FALSE, source |-> null, target |-> null, label |-> <<>>,
   arrowType |-> [type |-> "", arrow |-> "", hasLabel |-> FALSE],
   sourceNode |-> nullNode, targetNode |-> nullNode]

parseConnection(line) ==
  Const(exec(line, connectionPattern), LAMBDA match :
    IF ~match.ok THEN nullConnection
    ELSE
      Const(exec(match.v[6], inlineDefPattern), LAMBDA inlineDefMatch :
        LET sourceId == match.v[1]
            sourceShape == match.v[2]
            arrow == match.v[3]
            edgeLabel == match.v[5]
            targetPart == match.v[6]
            targetId == IF inlineDefMatch.ok THEN inlineDefMatch.v[1] ELSE trim(targetPart)
        IN  [matched |-> TRUE, source |-> sourceId, target |-> targetId,
             label |-> IF edgeLabel = undefined THEN <<>> ELSE edgeLabel,
             arrowType |-> parseArrow(arrow),
             sourceNode |-> IF sourceShape # undefined
                            THEN [parseNodeShape(sourceShape) EXCEPT !.id = sourceId]
                            ELSE nullNode,
             targetNode |-> IF inlineDefMatch.ok
                            THEN [parseNodeShape(inlineDefMatch.v[2]) EXCEPT !.id = targetId]
                            ELSE nullNode]))

\* --------------------------------------------------------------- keywords

\* The backquote, which a TLA+ string cannot hold, is the character "BACKQUOTE".
Bq == "BACKQUOTE"

KwFlowchart == <<"f", "l", "o", "w", "c", "h", "a", "r", "t">>
KwGraph == <<"g", "r", "a", "p", "h">>
KwSequenceDiagram == <<"s", "e", "q", "u", "e", "n", "c", "e", "d", "i", "a", "g", "r", "a", "m">>
KwClassDiagram == <<"c", "l", "a", "s", "s", "d", "i", "a", "g", "r", "a", "m">>
KwErDiagram == <<"e", "r", "d", "i", "a", "g", "r", "a", "m">>
KwStateDiagram == <<"s", "t", "a", "t", "e", "d", "i", "a", "g", "r", "a", "m">>
KwGitGraph == <<"g", "i", "t", "g", "r", "a", "p", "h">>
KwMindmap == <<"m", "i", "n", "d", "m", "a", "p">>
KwSubgraph == <<"s", "u", "b", "g", "r", "a", "p", "h">>
KwEnd == <<"e", "n", "d">>
KwParticipant == <<"p", "a", "r", "t", "i", "c", "i", "p", "a", "n", "t">>
KwActor == <<"a", "c", "t", "o", "r">>
KwAs == <<"a", "s">>
KwRoot == <<"r", "o", "o", "t">>
KwClassDef == <<"c", "l", "a", "s", "s", "D", "e", "f">>
KwStyle == <<"s", "t", "y", "l", "e", " ">>
Comment == <<"%", "%">>
Fence == <<Bq, Bq, Bq>>
FenceMermaid == <<Bq, Bq, Bq, "m", "e", "r", "m", "a", "i", "d">>
TD == <<"T", "D">>
LR == <<"L", "R">>

\* ------------------------------------------------------ detectDiagramType

\* /\b(td|tb|bt|lr|rl)\b/i, run on text that is already lower case
directionPattern ==
  Re(<<Wb, Open(1), Alt(<<<<"t", "d">>, <<"t", "b">>, <<"b", "t">>, <<"l", "r">>, <<"r", "l">>>>), Close(1), Wb>>, 1)

\* detectDiagramType comparing the first line as written, without turning
\* it to lower case: the case-sensitive detection C1 rules out.
detectCaseSensitive(lines) ==
  Const(trim(lines[1]), LAMBDA firstLine :
    IF startsWith(firstLine, KwFlowchart) \/ startsWith(firstLine, KwGraph)
    THEN Const(exec(toLowerCase(firstLine), directionPattern), LAMBDA dir :
           [type |-> "flowchart",
            direction |-> IF dir.ok THEN toUpperCase(dir.v[1]) ELSE TD])
    ELSE IF startsWith(firstLine, <<"s", "e", "q", "u", "e", "n", "c", "e", "D", "i", "a", "g", "r", "a", "m">>)
    THEN [type |-> "sequence", direction |-> null]
    ELSE IF startsWith(firstLine, <<"e", "r", "D", "i", "a", "g", "r", "a", "m">>)
    THEN [type |-> "erDiagram", direction |-> null]
    ELSE IF startsWith(firstLine, KwMindmap)
    THEN [type |-> "mindmap", direction |-> null]
    ELSE [type |-> "unknown", direction |-> null])

detectDiagramType(lines) ==
  Const(toLowerCase(trim(lines[1])), LAMBDA firstLine :
    IF startsWith(firstLine, KwFlowchart) \/ startsWith(firstLine, KwGraph)
    THEN Const(exec(firstLine, directionPattern), LAMBDA dir :
           [type |-> "flowchart",
            direction |-> IF dir.ok THEN toUpperCase(dir.v[1]) ELSE TD])
    ELSE IF startsWith(firstLine, KwSequenceDiagram)
    THEN [type |-> "sequence", direction |-> null]
    ELSE IF startsWith(firstLine, KwClassDiagram)
    THEN [type |-> "class", direction |-> null]
    ELSE IF startsWith(firstLine, KwErDiagram)
    THEN [type |-> "erDiagram", direction |-> null]
    ELSE IF startsWith(firstLine, KwStateDiagram)
    THEN [type |-> "state", direction |-> null]
    ELSE IF startsWith(firstLine, KwGitGraph)
    THEN [type |-> "gitgraph", direction |-> null]
    ELSE IF startsWith(firstLine, KwMindmap)
    THEN [type |-> "mindmap", direction |-> null]
    ELSE [type |-> "unknown", direction |-> null])

\* ------------------------------------------------- the scanners' variables

\* null, for the open subgraph
nullSubgraph == [id |-> null, label |-> <<>>, nodes |-> <<>>]

\* The local variables of a scanner at the start of its loop.  nodes holds
\* the values of the nodes or entities Map in insertion order, or the
\* participants; edges holds the edges, messages or relationships.
initialLocals ==
  [nodes |-> <<>>, edges |-> <<>>, subgraphs |-> <<>>,
   currentSubgraph |-> nullSubgraph,
   inEntityBlock |-> FALSE, currentEntity |-> null,
   nodeStack |-> <<>>, nodeId |-> 0]

\* Map.prototype.has, Map.prototype.get, Map.prototype.set on the values of
\* a Map keyed by id
has(map, id) == \E k \in DOMAIN map : map[k].id = id
indexOf(map, id) == CHOOSE k \in DOMAIN map : map[k].id = id
get(map, id) == map[indexOf(map, id)]
set(map, id, value) ==
  IF has(map, id) THEN [map EXCEPT ![indexOf(map, id)] = value]
  ELSE Append(map, value)

\* Array.prototype.includes
arrayIncludes(a, x) == \E k \in DOMAIN a : a[k] = x

edgeId(n) == <<"e">> \o toDigits(n)

\* ---------------------------------------------------------- parseFlowchart

\* /subgraph\s+(\w+)(?:\s*\[([^\]]+)\])?/
subgraphPattern ==
  Re(<<Lit(KwSubgraph), Plus(SpaceChars), Open(1), Plus(WordChars), Close(1),
       Opt(<<Star(SpaceChars), Lit(<<"[">>), Open(2), NotPlus({"]"}), Close(2),
             Lit(<<"]">>)>>)>>, 2)

\* /^(\w+)([\[\(\{].+[\]\)\}])$/
nodeDefPattern ==
  Re(<<Bol, Open(1), Plus(WordChars), Close(1),
       Open(2), In(Openers), NotPlus(LineBreaks), In(Closers), Close(2), Eol>>, 2)

defaultNode(id) ==
  [id |-> id, label |-> id, shape |-> "rectangle", style |-> RectangleMapping.style,
   fillColor |-> RectangleMapping.fillColor, strokeColor |-> RectangleMapping.strokeColor]

\* upsertEndpoint storing the default node for a bare reference even when
\* the id is known: the erasure of a declared shape C6 rules out.
upsertOverwriting(nodes, id, node) ==
  set(nodes, id, IF node # nullNode THEN node ELSE defaultNode(id))

\* nodes after the source or target of a connection (lines 221-247)
upsertEndpoint(nodes, id, node) ==
  IF node # nullNode THEN set(nodes, id, node)
  ELSE IF ~has(nodes, id) THEN set(nodes, id, defaultNode(id))
  ELSE nodes

pushIfAbsent(a, x) == IF arrayIncludes(a, x) THEN a ELSE Append(a, x)

\* The connection branch of the loop body (lines 220-267).
flowchartConnection(s, connection) ==
  [s EXCEPT
     !.nodes = upsertEndpoint(
                 upsertEndpoint(@, connection.source, connection.sourceNode),
                 connection.target, connection.targetNode),
     !.currentSubgraph =
        IF s.currentSubgraph # nullSubgraph
        THEN [@ EXCEPT !.nodes = pushIfAbsent(pushIfAbsent(@, connection.source),
                                              connection.target)]
        ELSE @,
     !.edges = Append(@, [id |-> edgeId(Len(s.edges) + 1),
                          source |-> connection.source,
                          target |-> connection.target,
                          label |-> connection.label,
                          arrowType |-> connection.arrowType])]

\* The standalone node definition branch (lines 269-282).
flowchartNodeDef(s, line) ==
  Const(exec(line, nodeDefPattern), LAMBDA nodeDefMatch :
    IF ~nodeDefMatch.ok THEN s
    ELSE [s EXCEPT
            !.nodes = set(@, nodeDefMatch.v[1],
                          [parseNodeShape(nodeDefMatch.v[2]) EXCEPT !.id = nodeDefMatch.v[1]]),
            !.currentSubgraph = IF s.currentSubgraph # nullSubgraph
                                THEN [@ EXCEPT !.nodes = Append(@, nodeDefMatch.v[1])]
                                ELSE @])

\* The subgraph branch as it would be if a group still open were sealed
\* before the next one is opened.
flowchartSubgraphSealing(s, line) ==
  Const(exec(line, subgraphPattern), LAMBDA subgraphMatch :
    IF subgraphMatch.ok
    THEN [s EXCEPT !.subgraphs = IF s.currentSubgraph # nullSubgraph
                                 THEN Append(@, s.currentSubgraph) ELSE @,
                   !.currentSubgraph =
            [id |-> subgraphMatch.v[1],
             label |-> IF subgraphMatch.v[2] # undefined
                       THEN subgraphMatch.v[2] ELSE subgraphMatch.v[1],
             nodes |-> <<>>]]
    ELSE s)

\* The subgraph branch (lines 197-208).
flowchartSubgraph(s, line) ==
  Const(exec(line, subgraphPattern), LAMBDA subgraphMatch :
    IF subgraphMatch.ok
    THEN [s EXCEPT !.currentSubgraph =
            [id |-> subgraphMatch.v[1],
             label |-> IF subgraphMatch.v[2] # undefined
                       THEN subgraphMatch.v[2] ELSE subgraphMatch.v[1],
             nodes |-> <<>>]]
    ELSE s)

\* One iteration of the loop of parseFlowchart on lines[i].
flowchartLine(s, raw) ==
  Const(trim(raw), LAMBDA line :
    IF line = <<>> \/ startsWith(line, Comment) THEN s
    ELSE IF startsWith(line, KwSubgraph) THEN flowchartSubgraph(s, line)
    ELSE IF line = KwEnd
    THEN IF s.currentSubgraph # nullSubgraph
         THEN [s EXCEPT !.subgraphs = Append(@, s.currentSubgraph),
                        !.currentSubgraph = nullSubgraph]
         ELSE s
    ELSE Const(parseConnection(line), LAMBDA connection :
           IF connection.matched
           THEN flowchartConnection(s, connection)
           ELSE flowchartNodeDef(s, line)))

flowchartReturn(s, direction) ==
  [threw |-> FALSE, type |-> "flowchart", direction |-> direction,
   nodes |-> s.nodes, edges |-> s.edges, subgraphs |-> s.subgraphs]

\* ---------------------------------------------------- parseSequenceDiagram

\* /participant\s+(\w+)(?:\s+as\s+(.+))?/ and /actor\s+(\w+)(?:\s+as\s+(.+))?/
declarationPattern(keyword) ==
  Re(<<Lit(keyword), Plus(SpaceChars), Open(1), Plus(WordChars), Close(1),
       Opt(<<Plus(SpaceChars), Lit(KwAs), Plus(SpaceChars),
             Open(2), NotPlus(LineBreaks), Close(2)>>)>>, 2)

\* /(\w+)\s*(->>?|-->>?|-)>?\s*(\w+)\s*:\s*(.+)/
messagePattern ==
  Re(<<Open(1), Plus(WordChars), Close(1), Star(SpaceChars),
       Open(2), Alt(<<<<"-", ">", ">">>, <<"-", ">">>, <<"-", "-", ">", ">">>, <<"-", "-", ">">>, <<"-">>>>), Close(2),
       Opt(<<Lit(<<">">>)>>), Star(SpaceChars),
       Open(3), Plus(WordChars), Close(3), Star(SpaceChars), Lit(<<":">>),
       Star(SpaceChars), Open(4), NotPlus(LineBreaks), Close(4)>>, 4)

participant(match, isActor) ==
  [id |-> match.v[1],
   label |-> IF match.v[2] # undefined THEN match.v[2] ELSE match.v[1],
   isActor |-> isActor]

\* The message branch (lines 326-336).
sequenceMessage(s, line) ==
  Const(exec(line, messagePattern), LAMBDA messageMatch :
    IF messageMatch.ok
    THEN [s EXCEPT !.edges = Append(@,
            [from |-> messageMatch.v[1], to |-> messageMatch.v[3],
             message |-> messageMatch.v[4],
             type |-> IF includes(messageMatch.v[2], <<"-", "-">>) THEN "dashed" ELSE "solid",
             isAsync |-> includes(messageMatch.v[2], <<">", ">">>)])]
    ELSE s)

\* The actor branch and what follows it (lines 315-336).
sequenceActor(s, line) ==
  Const(exec(line, declarationPattern(KwActor)), LAMBDA actorMatch :
    IF actorMatch.ok
    THEN [s EXCEPT !.nodes = Append(@, participant(actorMatch, TRUE))]
    ELSE sequenceMessage(s, line))

\* One iteration of the loop of parseSequenceDiagram on lines[i].
sequenceLine(s, raw) ==
  Const(trim(raw), LAMBDA line :
    IF line = <<>> \/ startsWith(line, Comment) THEN s
    ELSE Const(exec(line, declarationPattern(KwParticipant)), LAMBDA participantMatch :
           IF participantMatch.ok
           THEN [s EXCEPT !.nodes = Append(@, participant(participantMatch, FALSE))]
           ELSE sequenceActor(s, line)))

sequenceReturn(s) ==
  [threw |-> FALSE, type |-> "sequence", direction |-> null,
   nodes |-> s.nodes,
   edges |-> [k \in DOMAIN s.edges |->
                [id |-> edgeId(k), source |-> s.edges[k].from,
                 target |-> s.edges[k].to, label |-> s.edges[k].message]],
   subgraphs |-> <<>>]

\* ----------------------------------------------------------- parseERDiagram

\* /^(\w+)\s*\{$/
entityBlockStartPattern ==
  Re(<<Bol, Open(1), Plus(WordChars), Close(1), Star(SpaceChars), Lit(<<"{">>), Eol>>, 1)

\* /^(\w+)\s+(\w+)\s*$/
attrPattern ==
  Re(<<Bol, Open(1), Plus(WordChars), Close(1), Plus(SpaceChars),
       Open(2), Plus(WordChars), Close(2), Star(SpaceChars), Eol>>, 2)

\* /(\w+)\s*(\|\||\|o|o\||o\{|\{o|\}\||\|\{|\{|)\s*--\s*
\*  (\|\||\|o|o\||\{o|o\{|\|\{|\}\|||\{)\s*(\w+)\s*:\s*"?([^"]+)"?/
relPattern ==
  Re(<<Open(1), Plus(WordChars), Close(1), Star(SpaceChars),
       Open(2), Alt(<<<<"|", "|">>, <<"|", "o">>, <<"o", "|">>, <<"o", "{">>, <<"{", "o">>, <<"}", "|">>, <<"|", "{">>, <<"{">>, <<>> >>), Close(2),
       Star(SpaceChars), Lit(<<"-", "-">>), Star(SpaceChars),
       Open(3), Alt(<<<<"|", "|">>, <<"|", "o">>, <<"o", "|">>, <<"{", "o">>, <<"o", "{">>, <<"|", "{">>, <<"}", "|">>, <<>>, <<"{">>>>), Close(3),
       Star(SpaceChars), Open(4), Plus(WordChars), Close(4), Star(SpaceChars),
       Lit(<<":">>), Star(SpaceChars), Opt(<<Lit(<<"\"">>)>>),
       Open(5), NotPlus({"\""}), Close(5), Opt(<<Lit(<<"\"">>)>>)>>, 5)

\* /(\w+)\s*\{\s*(\w+)\s+(\w+)\s*\}/
singleLineAttrPattern ==
  Re(<<Open(1), Plus(WordChars), Close(1), Star(SpaceChars), Lit(<<"{">>),
       Star(SpaceChars), Open(2), Plus(WordChars), Close(2), Plus(SpaceChars),
       Open(3), Plus(WordChars), Close(3), Star(SpaceChars), Lit(<<"}">>)>>, 3)

emptyEntity(name) == [id |-> name, label |-> name, attributes |-> <<>>]

ensureEntity(entities, name) ==
  IF has(entities, name) THEN entities ELSE Append(entities, emptyEntity(name))

pushAttribute(entities, name, type, attrName) ==
  [entities EXCEPT ![indexOf(entities, name)].attributes =
     Append(@, [type |-> type, name |-> attrName])]

\* card || '||' with the default taken always: the relationship C18 rules out.
alwaysDefaultCardinality(card) == <<"|", "|">>

orDefaultCardinality(card) == IF card = <<>> THEN <<"|", "|">> ELSE card

\* The single-line entity attribute branch (lines 419-428).
erSingleLineAttr(s, line) ==
  Const(exec(line, singleLineAttrPattern), LAMBDA singleLineAttrMatch :
    IF singleLineAttrMatch.ok
    THEN [s EXCEPT !.nodes =
            pushAttribute(ensureEntity(@, singleLineAttrMatch.v[1]),
                          singleLineAttrMatch.v[1],
                          singleLineAttrMatch.v[2], singleLineAttrMatch.v[3])]
    ELSE s)

\* The relationship branch and what follows it (lines 395-428).
erRelationship(s, line) ==
  Const(exec(line, relPattern), LAMBDA relMatch :
    IF relMatch.ok
    THEN [s EXCEPT
            !.nodes = ensureEntity(ensureEntity(@, relMatch.v[1]), relMatch.v[4]),
            !.edges = Append(@,
               [id |-> <<"r">> \o toDigits(Len(s.edges) + 1),
                source |-> relMatch.v[1], target |-> relMatch.v[4],
                cardinality1 |-> orDefaultCardinality(relMatch.v[2]),
                cardinality2 |-> orDefaultCardinality(relMatch.v[3]),
                label |-> trim(relMatch.v[5])])]
    ELSE erSingleLineAttr(s, line))

\* The attribute branch and what follows it (lines 385-428).
erAttribute(s, line) ==
  Const(exec(line, attrPattern), LAMBDA attrMatch :
    IF s.inEntityBlock /\ s.currentEntity # null /\ attrMatch.ok
    THEN [s EXCEPT !.nodes =
            pushAttribute(@, s.currentEntity, attrMatch.v[1], attrMatch.v[2])]
    ELSE erRelationship(s, line))

\* One iteration of the loop of parseERDiagram on lines[i].
erLine(s, raw) ==
  Const(trim(raw), LAMBDA line :
    IF line = <<>> \/ startsWith(line, Comment) THEN s
    ELSE IF line = <<"}">>
    THEN [s EXCEPT !.inEntityBlock = FALSE, !.currentEntity = null]
    ELSE Const(exec(line, entityBlockStartPattern), LAMBDA entityBlockStart :
           IF entityBlockStart.ok
           THEN [s EXCEPT !.nodes = ensureEntity(@, entityBlockStart.v[1]),
                          !.currentEntity = entityBlockStart.v[1],
                          !.inEntityBlock = TRUE]
           ELSE erAttribute(s, line)))

erReturn(s) ==
  [threw |-> FALSE, type |-> "erDiagram", direction |-> null,
   nodes |-> s.nodes, edges |-> s.edges, subgraphs |-> <<>>]

\* ------------------------------------------------------------- parseMindmap

levelColors == <<"#f8cecc", "#dae8fc", "#d5e8d4", "#fff2cc", "#e1d5e7", "#ffe6cc">>
levelStrokeColors == <<"#b85450", "#6c8ebf", "#82b366", "#d6b656", "#9673a6", "#d79b00">>

getLevelColor(level) == levelColors[(level % Len(levelColors)) + 1]
getLevelStrokeColor(level) == levelStrokeColors[(level % Len(levelStrokeColors)) + 1]

\* /^root\(\((.+)\)\)$/, /^\((.+)\)$/, /^\[(.+)\]$/
wrappedPattern(open, close) ==
  Re(<<Bol, Lit(open), Open(1), NotPlus(LineBreaks), Close(1), Lit(close), Eol>>, 1)

rootPattern == wrappedPattern(KwRoot \o <<"(", "(">>, <<")", ")">>)
roundPattern == wrappedPattern(<<"(">>, <<")">>)
squarePattern == wrappedPattern(<<"[">>, <<"]">>)

\* line.search(/\S/) of a line that is not blank
indentOf(line) == Len(line) - Len(trimStart(line))

\* The node built at lines 479-491 from its label and shape.
mindmapNode(nodeId, label, shape, level) ==
  [id |-> <<"n", "o", "d", "e">> \o toDigits(nodeId), label |-> label, shape |-> shape,
   level |-> level,
   style |-> IF shape = "circle" THEN "ellipse;whiteSpace=wrap;html=1;"
             ELSE IF shape = "roundedRect" THEN "rounded=1;whiteSpace=wrap;html=1;"
             ELSE "rounded=0;whiteSpace=wrap;html=1;",
   fillColor |-> getLevelColor(level),
   strokeColor |-> getLevelStrokeColor(level)]

\* [label, shape] of the content of a line (lines 459-477)
mindmapContent(content) ==
  Const(exec(content, rootPattern), LAMBDA rootMatch :
    IF rootMatch.ok THEN [label |-> rootMatch.v[1], shape |-> "circle"]
    ELSE Const(exec(content, roundPattern), LAMBDA roundMatch :
           IF roundMatch.ok THEN [label |-> roundMatch.v[1], shape |-> "roundedRect"]
           ELSE Const(exec(content, squarePattern), LAMBDA squareMatch :
                  IF squareMatch.ok
                  THEN [label |-> squareMatch.v[1], shape |-> "rectangle"]
                  ELSE [label |-> content, shape |-> "rectangle"])))

\* The update of the stack and of the edges as it would be if the parent
\* were the node scanned last, whatever its depth.
mindmapPushUnderLast(s, node) ==
  [s EXCEPT
     !.nodeId = @ + 1,
     !.nodes = Append(@, node),
     !.nodeStack = [l \in DOMAIN s.nodeStack \cup {node.level} |->
                      IF l = node.level THEN node.id ELSE s.nodeStack[l]],
     !.edges = IF node.level > 0 /\ s.nodes # <<>>
               THEN Append(@, [id |-> edgeId(Len(s.edges) + 1),
                               source |-> s.nodes[Len(s.nodes)].id,
                               target |-> node.id, label |-> <<>>])
               ELSE @]

\* nodes.push(node) and the update of the stack and of the edges
\* (lines 493-505); nodeStack maps a level to the id of the node stored at
\* that index of the array.
mindmapPush(s, node) ==
  [s EXCEPT
     !.nodeId = @ + 1,
     !.nodes = Append(@, node),
     !.nodeStack = [l \in DOMAIN s.nodeStack \cup {node.level} |->
                      IF l = node.level THEN node.id ELSE s.nodeStack[l]],
     !.edges = IF node.level > 0 /\ (node.level - 1) \in DOMAIN s.nodeStack
               THEN Append(@, [id |-> edgeId(Len(s.edges) + 1),
                               source |-> s.nodeStack[node.level - 1],
                               target |-> node.id, label |-> <<>>])
               ELSE @]

\* One iteration of the loop of parseMindmap on lines[i].
mindmapLine(s, line) ==
  IF trim(line) = <<>> THEN s
  ELSE Const(mindmapContent(trim(line)), LAMBDA c :
         mindmapPush(s, mindmapNode(s.nodeId, c.label, c.shape, indentOf(line) \div 2)))

mindmapReturn(s) ==
  [threw |-> FALSE, type |-> "mindmap", direction |-> LR,
   nodes |-> s.nodes, edges |-> s.edges, subgraphs |-> <<>>]

\* ------------------------------------------------------------- parseMermaid

\* The three fence patterns of lines 552-555.
fenceMermaidStartPattern == Re(<<Bol, Lit(FenceMermaid), Opt(<<Lit(<<"\n">>)>>)>>, 0)
fenceStartPattern == Re(<<Bol, Lit(Fence), Opt(<<Lit(<<"\n">>)>>)>>, 0)
fenceEndPattern == Re(<<Opt(<<Lit(<<"\n">>)>>), Lit(Fence), Eol>>, 0)

\* code after "remove markdown fences if present" (lines 550-556)
stripFences(mermaidCode) ==
  Const(trim(mermaidCode), LAMBDA code :
    IF startsWith(code, FenceMermaid)
    THEN replaceWithEmpty(replaceWithEmpty(code, fenceMermaidStartPattern), fenceEndPattern)
    ELSE IF startsWith(code, Fence)
    THEN replaceWithEmpty(replaceWithEmpty(code, fenceStartPattern), fenceEndPattern)
    ELSE code)

thrown ==
  [threw |-> TRUE, type |-> "", direction |-> null,
   nodes |-> <<>>, edges |-> <<>>, subgraphs |-> <<>>]

\* The switch on the detected type (lines 567-579): the scanner called and
\* its arguments.
switch(detected, lines, nonEmptyLines) ==
  IF detected.type = "flowchart"
  THEN [threw |-> FALSE, scanner |-> "flowchart", lines |-> nonEmptyLines,
        direction |-> detected.direction]
  ELSE IF detected.type = "sequence"
  THEN [threw |-> FALSE, scanner |-> "sequence", lines |-> nonEmptyLines,
        direction |-> null]
  ELSE IF detected.type = "erDiagram"
  THEN [threw |-> FALSE, scanner |-> "erDiagram", lines |-> nonEmptyLines,
        direction |-> null]
  ELSE IF detected.type = "mindmap"
  THEN [threw |-> FALSE, scanner |-> "mindmap", lines |-> lines, direction |-> null]
  ELSE [threw |-> FALSE, scanner |-> "flowchart", lines |-> nonEmptyLines,
        direction |-> IF detected.direction # null THEN detected.direction ELSE TD]

\* parseMermaid up to the call of a scanner (lines 549-579): whether it
\* throws 'Empty Mermaid diagram', else the scanner called and its arguments.
dispatch(mermaidCode) ==
  Const(split(stripFences(mermaidCode)), LAMBDA lines :
    Const(filterNonBlank(lines), LAMBDA nonEmptyLines :
      IF Len(nonEmptyLines) = 0
      THEN [threw |-> TRUE, scanner |-> "", lines |-> <<>>, direction |-> null]
      ELSE switch(detectDiagramType(nonEmptyLines), lines, nonEmptyLines)))

\* The body of a scanner's loop, for (let i = 1; i < lines.length; i++).
scanLine(scanner, s, line) ==
  CASE scanner = "flowchart" -> flowchartLine(s, line)
    [] scanner = "sequence" -> sequenceLine(s, line)
    [] scanner = "erDiagram" -> erLine(s, line)
    [] scanner = "mindmap" -> mindmapLine(s, line)

\* The value a scanner returns after its loop.
scannerReturn(scanner, s, direction) ==
  CASE scanner = "flowchart" -> flowchartReturn(s, direction)
    [] scanner = "sequence" -> sequenceReturn(s)
    [] scanner = "erDiagram" -> erReturn(s)
    [] scanner = "mindmap" -> mindmapReturn(s)

RECURSIVE scanFrom(_, _, _, _)
scanFrom(scanner, lines, i, s) ==
  IF i < Len(lines)
  THEN scanFrom(scanner, lines, i + 1, scanLine(scanner, s, lines[i + 1]))
  ELSE s

\* parseMermaid(mermaidCode) as one call
parseMermaid(mermaidCode) ==
  Const(dispatch(mermaidCode), LAMBDA d :
    IF d.threw THEN thrown
    ELSE scannerReturn(d.scanner, scanFrom(d.scanner, d.lines, 1, initialLocals),
                       d.direction))

\* ----------------------------------------------------------- validateMermaid

validTypes ==
  <<KwFlowchart, KwGraph, KwSequenceDiagram, KwClassDiagram, KwErDiagram,
    KwStateDiagram, KwGitGraph, KwMindmap>>

\* /-->/g, /^\s*(\w+)\s*[\[\(\{]/, /^\s*(\w+)\s*--/ and /^\w+$/
plainArrowPattern == Re(<<Lit(<<"-", "-", ">">>)>>, 0)
leadingNodePattern ==
  Re(<<Bol, Star(SpaceChars), Open(1), Plus(WordChars), Close(1), Star(SpaceChars),
       In(Openers)>>, 1)
leadingSourcePattern ==
  Re(<<Bol, Star(SpaceChars), Open(1), Plus(WordChars), Close(1), Star(SpaceChars),
       Lit(<<"-", "-">>)>>, 1)
wordOnlyPattern == Re(<<Bol, Plus(WordChars), Eol>>, 0)

finding(n, issue, id) == [line |-> n, issue |-> issue, id |-> id]

\* The check of the id captured by a pattern (lines 626-638).
invalidId(line, n, pattern) ==
  Const(exec(line, pattern), LAMBDA match :
    IF match.ok /\ ~exec(match.v[1], wordOnlyPattern).ok
    THEN <<finding(n, "Invalid node ID", match.v[1])>>
    ELSE <<>>)

\* The issues the loop body pushes for the trimmed lines[i], n = i + 1
\* (lines 618-638).
lineIssues(line, n) ==
  (IF countMatches(line, plainArrowPattern, 1) > 1
   THEN <<finding(n, "Chained arrows detected", null)>> ELSE <<>>)
  \o invalidId(line, n, leadingNodePattern)
  \o invalidId(line, n, leadingSourcePattern)

\* The warnings the loop body pushes for the trimmed lines[i] (lines 613-616).
lineWarnings(line, n) ==
  IF startsWith(line, KwClassDef) \/ startsWith(line, KwStyle)
  THEN <<finding(n, "Styling directive found", null)>> ELSE <<>>

RECURSIVE allLineIssues(_, _)
allLineIssues(lines, i) ==
  IF i < Len(lines)
  THEN lineIssues(trim(lines[i + 1]), i + 1) \o allLineIssues(lines, i + 1)
  ELSE <<>>

RECURSIVE allLineWarnings(_, _)
allLineWarnings(lines, i) ==
  IF i < Len(lines)
  THEN lineWarnings(trim(lines[i + 1]), i + 1) \o allLineWarnings(lines, i + 1)
  ELSE <<>>

\* verdict grading by the issues alone, warnings ignored: the grading C10
\* rules out.
verdictIgnoringWarnings(issues, warnings) ==
  [isValid |-> Len(issues) = 0,
   compatibility |-> IF Len(issues) = 0 THEN "high" ELSE "low",
   issues |-> issues, warnings |-> warnings,
   nodeCount |-> 0, edgeCount |-> 0, diagramType |-> ""]

\* The returned object (lines 641-651).
verdict(issues, warnings) ==
  [isValid |-> Len(issues) = 0,
   compatibility |-> IF Len(issues) = 0
                     THEN (IF Len(warnings) = 0 THEN "high" ELSE "medium")
                     ELSE "low",
   issues |-> issues, warnings |-> warnings,
   nodeCount |-> 0, edgeCount |-> 0, diagramType |-> ""]

\* The issue of the type check (lines 595-601).
typeIssues(firstLine) ==
  IF ~\E k \in DOMAIN validTypes : startsWith(firstLine, validTypes[k])
  THEN <<finding(1, "Missing or invalid diagram type declaration", null)>>
  ELSE <<>>

\* The warning of the direction check (lines 603-608).
directionWarnings(firstLine) ==
  IF /\ startsWith(firstLine, KwFlowchart) \/ startsWith(firstLine, KwGraph)
     /\ ~exec(firstLine, directionPattern).ok
  THEN <<finding(1, "Direction not specified", null)>>
  ELSE <<>>

\* validateMermaid after its fence removal, on the lines of the code.
validateLines(lines) ==
  Const(toLowerCase(trim(lines[1])), LAMBDA firstLine :
    verdict(typeIssues(firstLine) \o allLineIssues(lines, 0),
            directionWarnings(firstLine) \o allLineWarnings(lines, 0)))

validateMermaid(mermaidCode) ==
  Const(trim(mermaidCode), LAMBDA code :
    validateLines(split(
      IF startsWith(code, FenceMermaid)
      THEN replaceWithEmpty(replaceWithEmpty(code, fenceMermaidStartPattern),
                            fenceEndPattern)
      ELSE code)))

\* validation after the try block of the validate command (lines 926-933);
\* diagramType "" is the property left unset.
withCounts(validation, parseResult) ==
  IF parseResult.threw THEN validation
  ELSE [validation EXCEPT !.nodeCount = Len(parseResult.nodes),
                          !.edgeCount = Len(parseResult.edges),
                          !.diagramType = parseResult.type]

\* The validate command up to its output (lines 920-933).
validateCommand(mermaidCode) ==
  withCounts(validateMermaid(mermaidCode), parseMermaid(mermaidCode))

\* -------------------------------------------------------------------- inputs

MaxLines == 2
MaxLabel == 2
MaxGraphLines == 3
MaxCalls == 400
MaxSubgraphLines == 4
MaxMindmapLines == 3

RECURSIVE join(_)
join(ls) ==
  IF Len(ls) = 0 THEN <<>>
  ELSE IF Len(ls) = 1 THEN ls[1]
  ELSE ls[1] \o <<"\n">> \o join(Tail(ls))

Bodies(catalog) == UNION {[1..k -> catalog] : k \in 0..MaxLines}
Documents(header, catalog) == {join(<<header>> \o body) : body \in Bodies(catalog)}

Headers ==
  {<<"f", "l", "o", "w", "c", "h", "a", "r", "t", " ", "T", "D">>, <<"f", "l", "o", "w", "c", "h", "a", "r", "t">>, <<"g", "r", "a", "p", "h", " ", "L", "R">>, <<"F", "L", "O", "W", "C", "H", "A", "R", "T", " ", "r", "l">>, <<"G", "r", "a", "p", "h", " ", "b", "t">>, <<"f", "l", "o", "w", "c", "h", "a", "r", "t", " ", "T", "B">>,
   <<"s", "e", "q", "u", "e", "n", "c", "e", "D", "i", "a", "g", "r", "a", "m">>, <<"S", "E", "Q", "U", "E", "N", "C", "E", "D", "I", "A", "G", "R", "A", "M">>, <<"e", "r", "D", "i", "a", "g", "r", "a", "m">>, <<"E", "R", "d", "i", "a", "g", "r", "a", "m">>, <<"m", "i", "n", "d", "m", "a", "p">>, <<"M", "i", "n", "d", "m", "a", "p">>,
   <<"c", "l", "a", "s", "s", "D", "i", "a", "g", "r", "a", "m">>, <<"s", "t", "a", "t", "e", "D", "i", "a", "g", "r", "a", "m", "-", "v", "2">>, <<"g", "i", "t", "G", "r", "a", "p", "h">>, <<"p", "i", "e">>, <<"A", " ", "-", "-", ">", " ", "B">>, <<"%", "%", " ", "n", "o", "t", "e">>}
HeaderInputs ==
  Headers \cup {join(<<h, <<"A", " ", "-", "-", ">", " ", "B">>>>) : h \in Headers}
          \cup {join(<<<<"%", "%", " ", "n", "o", "t", "e">>, h, <<"A", " ", "-", "-", ">", " ", "B">>>>) : h \in Headers}

\* Inputs without a diagram: empty, white space, fence markers alone.
EmptyInputs ==
  {<<>>, <<" ">>, <<"\n">>, <<" ", "\n", "\t", " ">>, Fence, FenceMermaid, Fence \o <<"\n">> \o Fence,
   FenceMermaid \o <<"\n">> \o Fence, Fence \o <<"\n", "\n">> \o Fence,
   FenceMermaid \o <<"\n", " ", "\n">> \o Fence, <<" ", " ">> \o Fence \o <<"\n">> \o Fence \o <<"\n">>,
   Fence \o <<"j", "s", "\n">> \o Fence, Fence \o <<"\n">> \o Fence \o <<"\n">> \o Fence}

FlowchartLines ==
  {<<"A", "[", "x", "]", " ", "-", "-", ">", " ", "B">>, <<"A", " ", "-", "-", ">", " ", "B">>, <<"B", " ", "-", "-", ">", " ", "A", "{", "y", "}">>, <<"B", "(", "z", ")">>, <<"A", " ", "-", "-", ">", " ", "B", " ", "C">>, <<"s", "u", "b", "g", "r", "a", "p", "h", " ", "S">>, <<"e", "n", "d">>,
   <<"%", "%", " ", "n", "o", "t", "e">>}
SequenceLines == {<<"p", "a", "r", "t", "i", "c", "i", "p", "a", "n", "t", " ", "A">>, <<"a", "c", "t", "o", "r", " ", "B", " ", "a", "s", " ", "B", "o", "b">>, <<"A", "-", ">", ">", "B", ":", " ", "h", "i">>, <<"B", "-", "-", ">", ">", "A", ":", " ", "o", "k">>}
ERLines ==
  {<<"A", " ", "|", "|", "-", "-", "o", "{", " ", "B", " ", ":", " ", "\"", "h", "a", "s", "\"">>, <<"A", " ", "{">>, <<"s", "t", "r", "i", "n", "g", " ", "n", "a", "m", "e">>, <<"}">>, <<"B", " ", "{", " ", "i", "n", "t", " ", "i", "d", " ", "}">>, <<"A", " ", "}", "o", "-", "-", "|", "|", " ", "B", " ", ":", " ", "x">>}
MindmapLines == {<<" ", " ", "r", "o", "o", "t", "(", "(", "R", ")", ")">>, <<" ", " ", " ", " ", "(", "a", ")">>, <<" ", " ", " ", " ", "[", "b", "]">>, <<" ", " ", " ", " ", " ", " ", "c">>, <<"%", "%", " ", "n", "o", "t", "e">>}

LabelChars == {"x", " ", "]", ")"}
Labels == UNION {[1..k -> LabelChars] : k \in 1..MaxLabel} \cup {<<"a", "}", " ", "-", "-", ">", " ", "b">>}
Wrappers ==
  {[open |-> <<"(", "[">>, close |-> <<"]", ")">>], [open |-> <<"(", "(">>, close |-> <<")", ")">>],
   [open |-> <<"[", "[">>, close |-> <<"]", "]">>], [open |-> <<"[">>, close |-> <<")">>]}
Fragments == {w.open \o l \o w.close : w \in Wrappers, l \in Labels}

\* A flowchart whose one line writes the fragment f for the node A: alone,
\* inline as the source, inline as the target of a connection.
Standalone(f) == join(<<<<"f", "l", "o", "w", "c", "h", "a", "r", "t", " ", "T", "D">>, <<"A">> \o f>>)
AsSource(f) == join(<<<<"f", "l", "o", "w", "c", "h", "a", "r", "t", " ", "T", "D">>, <<"A">> \o f \o <<" ", "-", "-", ">", " ", "B">>>>)
AsTarget(f) == join(<<<<"f", "l", "o", "w", "c", "h", "a", "r", "t", " ", "T", "D">>, <<"B", " ", "-", "-", ">", " ", "A">> \o f>>)
Written(f) == {Standalone(f), AsSource(f), AsTarget(f)}
ShapeInputs == UNION {Written(f) : f \in Fragments}

FenceTags == {Fence, FenceMermaid, Fence \o <<"j", "s">>}
FencedDocuments ==
  {<<"f", "l", "o", "w", "c", "h", "a", "r", "t", " ", "L", "R", "\n", "A", " ", "-", "-", ">", " ", "B">>, <<"s", "e", "q", "u", "e", "n", "c", "e", "D", "i", "a", "g", "r", "a", "m", "\n", "A", "-", ">", ">", "B", ":", " ", "h", "i">>, <<"m", "i", "n", "d", "m", "a", "p", "\n", " ", " ", "r", "o", "o", "t", "(", "(", "R", ")", ")", "\n", " ", " ", " ", " ", "c">>,
   <<"e", "r", "D", "i", "a", "g", "r", "a", "m", "\n", "A", " ", "|", "|", "-", "-", "o", "{", " ", "B", " ", ":", " ", "\"", "h", "a", "s", "\"">>, <<"\n", "f", "l", "o", "w", "c", "h", "a", "r", "t", " ", "L", "R", "\n", "A", " ", "-", "-", ">", " ", "B">>, <<"\n", "m", "i", "n", "d", "m", "a", "p", "\n", " ", " ", "r", "o", "o", "t", "(", "(", "R", ")", ")">>}
FencedInputs ==
  {tag \o <<"\n">> \o doc \o <<"\n">> \o Fence : tag \in FenceTags, doc \in FencedDocuments}

ValidatorInputs ==
  {<<"f", "l", "o", "w", "c", "h", "a", "r", "t", " ", "L", "R", "\n", "A", " ", "-", "-", ">", " ", "B", " ", "-", "-", ">", " ", "C">>, <<"f", "l", "o", "w", "c", "h", "a", "r", "t", " ", "L", "R", "\n", "s", "t", "y", "l", "e", " ", "A", " ", "f", "i", "l", "l", ":", "#", "f", "f", "f", "\n", "A", " ", "-", "-", ">", " ", "B">>,
   <<"f", "l", "o", "w", "c", "h", "a", "r", "t", "\n", "c", "l", "a", "s", "s", "D", "e", "f", " ", "k", " ", "f", "i", "l", "l", ":", "#", "f", "f", "f", "\n", "A", " ", "-", "-", ">", " ", "B", " ", "-", "-", ">", " ", "C">>, <<"A", " ", "-", "-", ">", " ", "B", "\n", "B", " ", "-", "-", ">", " ", "A">>,
   <<"f", "l", "o", "w", "c", "h", "a", "r", "t", " ", "L", "R", "\n", "m", "y", "-", "n", "o", "d", "e", "[", "x", "]", " ", "-", "-", ">", " ", "B">>, <<"g", "r", "a", "p", "h", "\n", "A", " ", "-", "-", ">", " ", "B">>,
   <<"f", "l", "o", "w", "c", "h", "a", "r", "t", " ", "L", "R", "\n", "m", "y", "-", "n", "o", "d", "e", "[", "L", "a", "b", "e", "l", "]">>, <<"f", "l", "o", "w", "c", "h", "a", "r", "t", " ", "L", "R", "\n", "m", "y", "-", "n", "o", "d", "e", " ", "-", "-", ">", " ", "B">>, <<"f", "l", "o", "w", "c", "h", "a", "r", "t", " ", "L", "R", "\n", "A", "[", "x", "]">>}

\* The cardinality tokens of the ER notation and relationship lines written
\* with them, after no line, after a declared entity, inside an open block.
Cardinalities == {<<"|", "|">>, <<"o", "|">>, <<"|", "o">>, <<"o", "{">>, <<"{", "o">>, <<"|", "{">>, <<"}", "|">>}
RelationshipLine(e1, c1, c2, e2, label) ==
  e1 \o <<" ">> \o c1 \o <<"-", "-">> \o c2 \o <<" ">> \o e2 \o <<" ", ":", " ", "\"">> \o label \o <<"\"">>
RelationshipPrefixes == {<<>>, <<"B", " ", "{", " ", "i", "n", "t", " ", "i", "d", " ", "}", "\n">>, <<"A", " ", "{", "\n">>}
RelationshipLabels == {<<"h", "a", "s">>, <<"x", " ", "y">>}
RelationshipInputs ==
  {<<"e", "r", "D", "i", "a", "g", "r", "a", "m", "\n">> \o prefix \o RelationshipLine(<<"A">>, c1, c2, e2, label) :
     prefix \in RelationshipPrefixes, c1 \in Cardinalities, c2 \in Cardinalities,
     e2 \in {<<"A">>, <<"B">>}, label \in RelationshipLabels}

\* Flowcharts over three nodes: chains, branches, joins, cycles, self-loops,
\* duplicate connections, a node apart, in each direction; the longest
\* documents are drawn from top to bottom.
GraphLines == {<<"A", " ", "-", "-", ">", " ", "B">>, <<"B", " ", "-", "-", ">", " ", "A">>, <<"A", " ", "-", "-", ">", " ", "A">>, <<"B", " ", "-", "-", ">", " ", "C">>, <<"A", " ", "-", "-", ">", " ", "C">>, <<"C", " ", "-", "-", ">", " ", "B">>, <<"C", "(", "z", ")">>}
GraphBodies(n) == UNION {[1..k -> GraphLines] : k \in 0..n}
GraphDocuments(header, n) == {join(<<header>> \o body) : body \in GraphBodies(n)}
GraphInputs ==
  GraphDocuments(<<"f", "l", "o", "w", "c", "h", "a", "r", "t", " ", "T", "D">>, MaxGraphLines)
    \cup GraphDocuments(<<"f", "l", "o", "w", "c", "h", "a", "r", "t", " ", "L", "R">>, MaxGraphLines - 1)
    \cup GraphDocuments(<<"f", "l", "o", "w", "c", "h", "a", "r", "t", " ", "B", "T">>, 2) \cup GraphDocuments(<<"f", "l", "o", "w", "c", "h", "a", "r", "t", " ", "R", "L">>, 2)

\* A flowchart with a node named Start, so that none is added, and a
\* second node without incoming edge leading into the same node.
SharedSuccessor == <<"f", "l", "o", "w", "c", "h", "a", "r", "t", " ", "T", "D", "\n", "S", "t", "a", "r", "t", " ", "-", "-", ">", " ", "C", "\n", "B", " ", "-", "-", ">", " ", "C">>

\* Flowcharts whose ids or labels read like the terminals convertToDrawio adds.
TerminalInputs ==
  {<<"f", "l", "o", "w", "c", "h", "a", "r", "t", " ", "T", "D", "\n", "A", "[", "S", "t", "a", "r", "t", "]", " ", "-", "-", ">", " ", "B", "[", "E", "n", "d", "]">>, <<"f", "l", "o", "w", "c", "h", "a", "r", "t", " ", "T", "D", "\n", "X", "[", "G", "o", "]", " ", "-", "-", ">", " ", "Y", "[", "S", "t", "o", "p", "2", "]">>,
   <<"f", "l", "o", "w", "c", "h", "a", "r", "t", " ", "T", "D", "\n", "s", "t", "a", "r", "t", "[", "B", "e", "g", "i", "n", "]", " ", "-", "-", ">", " ", "B">>, <<"f", "l", "o", "w", "c", "h", "a", "r", "t", " ", "T", "D", "\n", "S", "t", "a", "r", "t", " ", "-", "-", ">", " ", "B">>, <<"f", "l", "o", "w", "c", "h", "a", "r", "t", " ", "T", "D", "\n", "A", " ", "-", "-", ">", " ", "S", "t", "o", "p">>,
   <<"f", "l", "o", "w", "c", "h", "a", "r", "t", " ", "T", "D", "\n", "A", " ", "-", "-", ">", " ", "e", "n", "d", "1", "\n", "s", "t", "o", "p", "[", "H", "a", "l", "t", "]">>, <<"f", "l", "o", "w", "c", "h", "a", "r", "t", " ", "T", "D", "\n", "A", "[", "S", "T", "A", "R", "T", "]", " ", "-", "-", ">", " ", "B", "[", "s", "t", "o", "p", "]">>,
   <<"f", "l", "o", "w", "c", "h", "a", "r", "t", " ", "T", "D", "\n", "A", " ", "-", "-", ">", " ", "E", "N", "D">>, <<"f", "l", "o", "w", "c", "h", "a", "r", "t", " ", "T", "D", "\n", "e", "1", " ", "-", "-", ">", " ", "B">>, <<"f", "l", "o", "w", "c", "h", "a", "r", "t", " ", "T", "D", "\n", "1", " ", "-", "-", ">", " ", "2">>,
   <<"f", "l", "o", "w", "c", "h", "a", "r", "t", " ", "T", "D", "\n", "A", " ", "-", "-", ">", " ", "s", "g", "0", "\n", "s", "u", "b", "g", "r", "a", "p", "h", " ", "S", "\n", "A", "\n", "e", "n", "d">>,
   SharedSuccessor}

\* A flowchart with branching nodes below a branching node: A and B(z)
\* have no incoming edge, A leads to the leaf C and to D, D to E and F.
NestedBranches == <<"f", "l", "o", "w", "c", "h", "a", "r", "t", " ", "T", "D", "\n", "B", "(", "z", ")", "\n", "A", " ", "-", "-", ">", " ", "C", "\n", "A", " ", "-", "-", ">", " ", "D", "\n", "D", " ", "-", "-", ">", " ", "E", "\n", "D", " ", "-", "-", ">", " ", "F">>
BranchInputs == {NestedBranches}

\* Flowcharts with groups: opened, opened again before an end, closed,
\* closed twice, left open, with connections and node declarations inside
\* and outside.
SubgraphLines == {<<"s", "u", "b", "g", "r", "a", "p", "h", " ", "S">>, <<"s", "u", "b", "g", "r", "a", "p", "h", " ", "T", " ", "[", "x", "]">>, <<"e", "n", "d">>, <<"A", " ", "-", "-", ">", " ", "B">>, <<"B", "(", "z", ")">>}
SubgraphInputs ==
  {join(<<<<"f", "l", "o", "w", "c", "h", "a", "r", "t", " ", "L", "R">>>> \o body) :
     body \in UNION {[1..k -> SubgraphLines] : k \in 0..MaxSubgraphLines}}

\* Mindmaps whose lines are indented by 0, 2, 3, 4 and 6 characters, in
\* any order: several lines without indent, depths skipped, depths taken
\* up again after a shallower line.
MindmapTreeLines == {<<"r">>, <<" ", " ", "a">>, <<" ", " ", " ", "d">>, <<" ", " ", " ", " ", "b">>, <<" ", " ", " ", " ", " ", " ", "c">>}
MindmapTreeInputs ==
  {join(<<<<"m", "i", "n", "d", "m", "a", "p">>>> \o body) :
     body \in UNION {[1..k -> MindmapTreeLines] : k \in 0..MaxMindmapLines}}

TextDeclares == <<"s", "e", "q", "u", "e", "n", "c", "e", "D", "i", "a", "g", "r", "a", "m", "\n", "A", "-", ">", ">", "B", ":", " ", "p", "a", "r", "t", "i", "c", "i", "p", "a", "n", "t", " ", "C">>
MessageInputs ==
  {TextDeclares, <<"s", "e", "q", "u", "e", "n", "c", "e", "D", "i", "a", "g", "r", "a", "m", "\n", "A", "-", "-", ">", "B", ":", " ", "a", "c", "t", "o", "r", " ", "D", " ", "a", "s", " ", "x">>, <<"s", "e", "q", "u", "e", "n", "c", "e", "D", "i", "a", "g", "r", "a", "m", "\n", "A", "-", ">", "B", ":", " ", "x", "\n", "B", " ", "-", "-", ">", ">", " ", "A", " ", ":", " ", "y">>}

Inputs ==
  MessageInputs \cup HeaderInputs \cup RelationshipInputs \cup GraphInputs \cup TerminalInputs \cup BranchInputs \cup SubgraphInputs \cup MindmapTreeInputs \cup EmptyInputs \cup ShapeInputs \cup FencedInputs \cup ValidatorInputs
    \cup FencedDocuments
    \cup Documents(<<"f", "l", "o", "w", "c", "h", "a", "r", "t", " ", "L", "R">>, FlowchartLines)
    \cup Documents(<<"s", "e", "q", "u", "e", "n", "c", "e", "D", "i", "a", "g", "r", "a", "m">>, SequenceLines)
    \cup Documents(<<"e", "r", "D", "i", "a", "g", "r", "a", "m">>, ERLines)
    \cup Documents(<<"m", "i", "n", "d", "m", "a", "p">>, MindmapLines)

\* ------------------------------------------------------------ convertToDrawio

\* The targets pushed on outEdges.get(id) and the sources pushed on
\* inEdges.get(id), in the order of the edges (lines 1199-1206, 884-891).
RECURSIVE outEdgesOf(_, _)
outEdgesOf(edgeList, id) ==
  IF edgeList = <<>> THEN <<>>
  ELSE (IF Head(edgeList).source = id THEN <<Head(edgeList).target>> ELSE <<>>)
       \o outEdgesOf(Tail(edgeList), id)

RECURSIVE inEdgesOf(_, _)
inEdgesOf(edgeList, id) ==
  IF edgeList = <<>> THEN <<>>
  ELSE (IF Head(edgeList).target = id THEN <<Head(edgeList).source>> ELSE <<>>)
       \o inEdgesOf(Tail(edgeList), id)

\* nodes.filter: the nodes without incoming and without outgoing edges.
RECURSIVE startNodesOf(_, _)
startNodesOf(nodeList, edgeList) ==
  IF nodeList = <<>> THEN <<>>
  ELSE (IF inEdgesOf(edgeList, Head(nodeList).id) = <<>> THEN <<Head(nodeList)>> ELSE <<>>)
       \o startNodesOf(Tail(nodeList), edgeList)

RECURSIVE endNodesOf(_, _)
endNodesOf(nodeList, edgeList) ==
  IF nodeList = <<>> THEN <<>>
  ELSE (IF outEdgesOf(edgeList, Head(nodeList).id) = <<>> THEN <<Head(nodeList)>> ELSE <<>>)
       \o endNodesOf(Tail(nodeList), edgeList)

\* The checks as they would be with the ids alone, and with any label
\* that begins with stop or end.
hasStartId(nodeList) ==
  \E k \in DOMAIN nodeList : nodeList[k].id = <<"S", "t", "a", "r", "t">>

hasStopPrefix(nodeList) ==
  \E k \in DOMAIN nodeList :
     \/ nodeList[k].id = <<"S", "t", "o", "p">> \/ nodeList[k].id = <<"E", "n", "d">>
     \/ startsWith(toLowerCase(nodeList[k].label), <<"s", "t", "o", "p">>)
     \/ startsWith(toLowerCase(nodeList[k].label), <<"e", "n", "d">>)

\* nodes.some(..) of lines 1213-1216
hasStartNode(nodeList) ==
  \E k \in DOMAIN nodeList :
     nodeList[k].id = <<"S", "t", "a", "r", "t">> \/ toLowerCase(nodeList[k].label) = <<"s", "t", "a", "r", "t">>

\* nodes.some(..) of lines 1219-1222
hasStopNode(nodeList) ==
  \E k \in DOMAIN nodeList :
     \/ nodeList[k].id = <<"S", "t", "o", "p">> \/ nodeList[k].id = <<"E", "n", "d">>
     \/ toLowerCase(nodeList[k].label) = <<"s", "t", "o", "p">>
     \/ toLowerCase(nodeList[k].label) = <<"e", "n", "d">>

startNode ==
  [id |-> <<"S", "t", "a", "r", "t">>, label |-> <<"S", "t", "a", "r", "t">>, shape |-> "stadium",
   style |-> SHAPE_MAPPINGS[1].style, fillColor |-> SHAPE_MAPPINGS[1].fillColor,
   strokeColor |-> SHAPE_MAPPINGS[1].strokeColor]

stopNode ==
  [id |-> <<"S", "t", "o", "p">>, label |-> <<"S", "t", "o", "p">>, shape |-> "stadium",
   style |-> SHAPE_MAPPINGS[1].style, fillColor |-> "#f8cecc",
   strokeColor |-> "#b85450"]

startEdge(processNode) ==
  [id |-> <<"e", "_", "s", "t", "a", "r", "t", "_">> \o processNode.id, source |-> <<"S", "t", "a", "r", "t">>, target |-> processNode.id,
   label |-> <<>>, arrowType |-> null]

stopEdge(processNode) ==
  [id |-> <<"e", "_">> \o processNode.id \o <<"_", "s", "t", "o", "p">>, source |-> processNode.id,
   target |-> <<"S", "t", "o", "p">>, label |-> <<>>, arrowType |-> null]

\* startNodes.forEach(edges.unshift(..)): the last start node's edge is first.
RECURSIVE unshiftStartEdges(_, _)
unshiftStartEdges(startNodes, edgeList) ==
  IF startNodes = <<>> THEN edgeList
  ELSE unshiftStartEdges(Tail(startNodes), <<startEdge(Head(startNodes))>> \o edgeList)

RECURSIVE pushStopEdges(_, _)
pushStopEdges(endNodes, edgeList) ==
  IF endNodes = <<>> THEN edgeList
  ELSE pushStopEdges(Tail(endNodes), Append(edgeList, stopEdge(Head(endNodes))))

\* The Start node and its edges added when missing (lines 1224-1246).
addStart(g, startNodes) ==
  IF ~hasStartNode(g.nodes) /\ Len(startNodes) > 0
  THEN [nodes |-> <<startNode>> \o g.nodes,
        edges |-> unshiftStartEdges(startNodes, g.edges)]
  ELSE g

\* The Stop node and its edges added when missing (lines 1247-1270); the
\* check looks at the nodes of the parsed diagram, where Start is not a
\* Stop node.
addStop(g, parsedNodes, endNodes) ==
  IF ~hasStopNode(parsedNodes) /\ Len(endNodes) > 0
  THEN [nodes |-> Append(g.nodes, stopNode),
        edges |-> pushStopEdges(endNodes, g.edges)]
  ELSE g

\* The nodes and edges of a flowchart after the synthesis of Start and Stop
\* (lines 1189-1271).
synthesize(parsedDiagram) ==
  IF parsedDiagram.type = "flowchart"
  THEN addStop(addStart([nodes |-> parsedDiagram.nodes, edges |-> parsedDiagram.edges],
                        startNodesOf(parsedDiagram.nodes, parsedDiagram.edges)),
               parsedDiagram.nodes,
               endNodesOf(parsedDiagram.nodes, parsedDiagram.edges))
  ELSE [nodes |-> parsedDiagram.nodes, edges |-> parsedDiagram.edges]

\* --------------------------------------------------------- calculatePositions

\* Map.prototype.set on a map kept as a function of its keys.
mapSet(map, key, value) ==
  [k \in DOMAIN map \cup {key} |-> IF k = key THEN value ELSE map[k]]

\* The roots: the nodes without incoming edge, else the first node
\* (lines 899-903).
rootsOf(nodeList, edgeList) ==
  IF startNodesOf(nodeList, edgeList) = <<>> /\ Len(nodeList) > 0
  THEN <<nodeList[1]>>
  ELSE startNodesOf(nodeList, edgeList)

\* The state of Step 1: nodeLevel, visited and inStack of lines 896-931.
\* calls counts the calls made so far and overrun tells that a call was
\* refused because MaxCalls calls had been made; back holds the pairs
\* (caller, node) of the calls that found the node in inStack.
initialLevels ==
  [nodeLevel |-> <<>>, visited |-> {}, inStack |-> {}, back |-> {},
   calls |-> 0, overrun |-> FALSE]

\* A call counted, or refused when MaxCalls calls have been made.
Called(st, Body(_)) ==
  IF st.calls >= MaxCalls THEN [st EXCEPT !.overrun = TRUE]
  ELSE Body([st EXCEPT !.calls = @ + 1])

\* nodeLevel.get(nodeId) || 0
levelOrZero(nodeLevel, id) == IF id \in DOMAIN nodeLevel THEN nodeLevel[id] ELSE 0

\* The two numbers added where Math.max takes the greater.
plusLevel(a, b) == a + b

\* The lesser of two numbers, where Math.max takes the greater.
min(a, b) == IF a <= b THEN a ELSE b

\* Math.max(a, b)
max(a, b) == IF a >= b THEN a ELSE b

RECURSIVE assignLevels(_, _, _, _, _)
RECURSIVE assignLevelsEach(_, _, _, _, _)

\* children.forEach((childId) => assignLevels(childId, level + 1, ..)) of
\* the node caller, level being level + 1 already.
assignLevelsEach(st, edgeList, children, level, caller) ==
  IF children = <<>> THEN st
  ELSE assignLevelsEach(assignLevels(st, edgeList, Head(children), level, caller),
                        edgeList, Tail(children), level, caller)

\* inStack.delete(nodeId)
leaveStack(st, id) == [st EXCEPT !.inStack = @ \ {id}]

\* assignLevels(nodeId, level, visited, inStack) (lines 908-931).
assignLevels(st, edgeList, id, level, caller) ==
  Called(st, LAMBDA s :
    IF id \in s.inStack THEN [s EXCEPT !.back = @ \cup {<<caller, id>>}]
    ELSE IF id \in s.visited /\ ~(level > s.nodeLevel[id]) THEN s
    ELSE leaveStack(
           assignLevelsEach(
             [s EXCEPT !.visited = @ \cup {id}, !.inStack = @ \cup {id},
                       !.nodeLevel = mapSet(@, id, max(levelOrZero(@, id), level))],
             edgeList, outEdgesOf(edgeList, id), level + 1, id),
           id))

\* roots.forEach((root) => assignLevels(root.id, 0, visited, inStack))
RECURSIVE assignLevelsRoots(_, _, _)
assignLevelsRoots(st, edgeList, roots) ==
  IF roots = <<>> THEN st
  ELSE assignLevelsRoots(assignLevels(st, edgeList, Head(roots).id, 0, null),
                         edgeList, Tail(roots))

\* Level 0 for the nodes left without a level (lines 939-943).
withUnvisited(nodeLevel, nodeList) ==
  [id \in DOMAIN nodeLevel \cup {nodeList[k].id : k \in DOMAIN nodeList} |->
     levelOrZero(nodeLevel, id)]

\* The tree children of a node (lines 954-970): the targets of its edges
\* with a target of a greater level, and of all its edges when it has more
\* than one outgoing edge.
RECURSIVE treeChildrenOf(_, _, _, _)
treeChildrenOf(edgeList, allEdges, nodeLevel, id) ==
  IF edgeList = <<>> THEN <<>>
  ELSE (IF /\ Head(edgeList).source = id
           /\ \/ Len(outEdgesOf(allEdges, id)) > 1
              \/ levelOrZero(nodeLevel, Head(edgeList).target)
                   > levelOrZero(nodeLevel, id)
        THEN <<Head(edgeList).target>> ELSE <<>>)
       \o treeChildrenOf(Tail(edgeList), allEdges, nodeLevel, id)

\* treeChildren as a map of the node ids.
treeChildrenMap(nodeList, edgeList, nodeLevel) ==
  [id \in {nodeList[k].id : k \in DOMAIN nodeList} |->
     treeChildrenOf(edgeList, edgeList, nodeLevel, id)]

\* treeChildren.get(nodeId) || []
childrenOf(treeChildren, id) ==
  IF id \in DOMAIN treeChildren THEN treeChildren[id] ELSE <<>>

\* The state of Step 3: subtreeWidth of line 973, ret the value returned by
\* the last call.
initialWidths(st) ==
  [subtreeWidth |-> <<>>, ret |-> 0, calls |-> st.calls, overrun |-> st.overrun]

RECURSIVE calcSubtreeWidth(_, _, _, _)
RECURSIVE calcSubtreeWidthEach(_, _, _, _, _)

\* children.forEach: totalWidth += calcSubtreeWidth(childId, new Set(visited));
\* ret is totalWidth at the end.
calcSubtreeWidthEach(st, treeChildren, children, visited, totalWidth) ==
  IF children = <<>> THEN [st EXCEPT !.ret = totalWidth]
  ELSE Const(calcSubtreeWidth(st, treeChildren, Head(children), visited), LAMBDA s :
         calcSubtreeWidthEach(s, treeChildren, Tail(children), visited,
                              totalWidth + s.ret))

\* subtreeWidth.set(nodeId, width); return width
returnWidth(st, id, width) ==
  [st EXCEPT !.subtreeWidth = mapSet(@, id, width), !.ret = width]

\* calcSubtreeWidth(nodeId, visited) (lines 975-995).
calcSubtreeWidth(st, treeChildren, id, visited) ==
  Called(st, LAMBDA s :
    IF id \in visited THEN [s EXCEPT !.ret = 0]
    ELSE IF id \in DOMAIN s.subtreeWidth THEN [s EXCEPT !.ret = s.subtreeWidth[id]]
    ELSE IF childrenOf(treeChildren, id) = <<>> THEN returnWidth(s, id, 1)
    ELSE Const(calcSubtreeWidthEach(s, treeChildren, childrenOf(treeChildren, id),
                                    visited \cup {id}, 0),
               LAMBDA t : returnWidth(t, id, max(1, t.ret))))

\* roots.forEach((root) => calcSubtreeWidth(root.id, new Set()))
RECURSIVE calcSubtreeWidthRoots(_, _, _)
calcSubtreeWidthRoots(st, treeChildren, roots) ==
  IF roots = <<>> THEN st
  ELSE calcSubtreeWidthRoots(calcSubtreeWidth(st, treeChildren, Head(roots).id, {}),
                             treeChildren, Tail(roots))

\* Width 1 for the nodes left without a width (lines 1000-1004).
withDefaultWidths(subtreeWidth, nodeList) ==
  [id \in DOMAIN subtreeWidth \cup {nodeList[k].id : k \in DOMAIN nodeList} |->
     IF id \in DOMAIN subtreeWidth THEN subtreeWidth[id] ELSE 1]

\* A column is a fraction <<numerator, denominator>>, or undefined, or NaN.
NaN == <<"NaN">>
whole(n) == <<n, 1>>
isNumber(c) == c # undefined /\ c # NaN

\* currentCol + (branchWidth - 1) / 2
centerOf(currentCol, branchWidth) == <<2 * currentCol + branchWidth - 1, 2>>

lessThan(a, b) == a[1] * b[2] < b[1] * a[2]

\* Math.min(...childCenters) and Math.max(...childCenters): NaN when an
\* argument is undefined or NaN.
RECURSIVE minOf(_)
minOf(cs) ==
  IF \E k \in DOMAIN cs : ~isNumber(cs[k]) THEN NaN
  ELSE IF Len(cs) = 1 THEN cs[1]
  ELSE IF lessThan(cs[1], minOf(Tail(cs))) THEN cs[1] ELSE minOf(Tail(cs))

RECURSIVE maxOf(_)
maxOf(cs) ==
  IF \E k \in DOMAIN cs : ~isNumber(cs[k]) THEN NaN
  ELSE IF Len(cs) = 1 THEN cs[1]
  ELSE IF lessThan(maxOf(Tail(cs)), cs[1]) THEN cs[1] ELSE maxOf(Tail(cs))

\* (minCenter + maxCenter) / 2
midpoint(a, b) ==
  IF ~isNumber(a) \/ ~isNumber(b) THEN NaN
  ELSE <<a[1] * b[2] + b[1] * a[2], 2 * a[2] * b[2]>>

\* The state of Step 4: nodeCol and positioned of lines 1007-1008, ret the
\* value returned by the last call.
initialColumns(st) ==
  [nodeCol |-> <<>>, positioned |-> {}, ret |-> 0,
   calls |-> st.calls, overrun |-> st.overrun]

\* nodeCol.get(id), undefined for a missing key
colOf(nodeCol, id) == IF id \in DOMAIN nodeCol THEN nodeCol[id] ELSE undefined

RECURSIVE getFullSubtreeWidth(_, _, _, _)
RECURSIVE getFullSubtreeWidthEach(_, _, _, _, _)

getFullSubtreeWidthEach(st, treeChildren, children, visited, totalWidth) ==
  IF children = <<>> THEN [st EXCEPT !.ret = totalWidth]
  ELSE Const(getFullSubtreeWidth(st, treeChildren, Head(children), visited), LAMBDA s :
         getFullSubtreeWidthEach(s, treeChildren, Tail(children), visited,
                                 totalWidth + s.ret))

\* getFullSubtreeWidth(nodeId, visited) (lines 1011-1024).
getFullSubtreeWidth(st, treeChildren, id, visited) ==
  Called(st, LAMBDA s :
    IF id \in visited THEN [s EXCEPT !.ret = 1]
    ELSE IF childrenOf(treeChildren, id) = <<>> THEN [s EXCEPT !.ret = 1]
    ELSE Const(getFullSubtreeWidthEach(s, treeChildren, childrenOf(treeChildren, id),
                                       visited \cup {id}, 0),
               LAMBDA t : [t EXCEPT !.ret = max(1, t.ret)]))

RECURSIVE positionNode(_, _, _, _)
RECURSIVE positionSubtree(_, _, _, _)
RECURSIVE positionSubtreeEach(_, _, _, _)
RECURSIVE positionBranches(_, _, _, _, _)

\* A child not yet positioned is given the centre of its branch, starting at
\* currentCol, and marked positioned (lines 1047-1052, 1089-1092); ret is
\* the width of the branch.
placeChild(st, treeChildren, id, currentCol) ==
  Const(getFullSubtreeWidth(st, treeChildren, id, {}), LAMBDA s :
    [s EXCEPT !.nodeCol = mapSet(@, id, centerOf(currentCol, s.ret)),
              !.positioned = @ \cup {id}])

\* The forEach of positionSubtree (lines 1087-1100); ret of st is not used.
positionSubtreeEach(st, treeChildren, children, currentCol) ==
  IF children = <<>> THEN st
  ELSE IF Head(children) \in st.positioned
  THEN positionSubtreeEach(st, treeChildren, Tail(children), currentCol)
  ELSE Const(placeChild(st, treeChildren, Head(children), currentCol), LAMBDA s :
         positionSubtreeEach(
           positionSubtree(s, treeChildren, Head(children), currentCol),
           treeChildren, Tail(children), currentCol + s.ret))

\* positionSubtree(nodeId, startCol) (lines 1079-1101).
positionSubtree(st, treeChildren, id, startCol) ==
  Called(st, LAMBDA s :
    positionSubtreeEach(s, treeChildren, childrenOf(treeChildren, id), startCol))

\* The forEach of the branching case of positionNode (lines 1043-1062):
\* ret is <<currentCol, childCenters>> at the end.
positionBranches(st, treeChildren, children, currentCol, childCenters) ==
  IF children = <<>> THEN [st EXCEPT !.ret = <<currentCol, childCenters>>]
  ELSE IF Head(children) \in st.positioned
  THEN positionBranches(st, treeChildren, Tail(children), currentCol,
                        Append(childCenters, colOf(st.nodeCol, Head(children))))
  ELSE Const(placeChild(st, treeChildren, Head(children), currentCol), LAMBDA s :
         positionBranches(
           positionSubtree(s, treeChildren, Head(children), currentCol),
           treeChildren, Tail(children), currentCol + s.ret,
           Append(childCenters, centerOf(currentCol, s.ret))))

\* positionNode(nodeId, startCol) (lines 1026-1076); ret is the column
\* returned.
positionNode(st, treeChildren, id, startCol) ==
  Called(st, LAMBDA s0 :
    IF id \in s0.positioned THEN [s0 EXCEPT !.ret = startCol]
    ELSE Const([s0 EXCEPT !.positioned = @ \cup {id}], LAMBDA s :
      IF childrenOf(treeChildren, id) = <<>>
      THEN [s EXCEPT !.nodeCol = mapSet(@, id, whole(startCol)), !.ret = startCol + 1]
      ELSE IF Len(childrenOf(treeChildren, id)) >= 2
      THEN Const(positionBranches(s, treeChildren, childrenOf(treeChildren, id),
                                  startCol, <<>>),
                 LAMBDA t :
                   [t EXCEPT !.nodeCol = mapSet(@, id, midpoint(minOf(t.ret[2]),
                                                                maxOf(t.ret[2]))),
                             !.ret = t.ret[1]])
      ELSE Const(positionNode(s, treeChildren, childrenOf(treeChildren, id)[1], startCol),
                 LAMBDA t :
                   [t EXCEPT !.nodeCol =
                      mapSet(@, id, colOf(t.nodeCol, childrenOf(treeChildren, id)[1]))])))

\* roots.forEach((root) => { col = positionNode(root.id, col) }); ret is col.
RECURSIVE positionRoots(_, _, _)
positionRoots(st, treeChildren, roots) ==
  IF roots = <<>> THEN st
  ELSE positionRoots(positionNode(st, treeChildren, Head(roots).id, st.ret),
                     treeChildren, Tail(roots))

\* nodeCol.set(node.id, col++) for the nodes without a column
\* (lines 1106-1110).
RECURSIVE withUnpositioned(_, _, _)
withUnpositioned(nodeCol, nodeList, col) ==
  IF nodeList = <<>> THEN nodeCol
  ELSE IF Head(nodeList).id \in DOMAIN nodeCol
  THEN withUnpositioned(nodeCol, Tail(nodeList), col)
  ELSE withUnpositioned(mapSet(nodeCol, Head(nodeList).id, whole(col)),
                        Tail(nodeList), col + 1)

\* The whole part of a fraction v, without the alignment.
wholePart(v) == v[1] \div v[2]

\* Math.round(v / 10) * 10 of a fraction v: the nearest multiple of 10, a
\* half rounded up.
gridAlign(v) == 10 * ((2 * v[1] + 10 * v[2]) \div (20 * v[2]))

\* nodeCol.get(node.id) || 0: undefined, NaN and 0 give 0.
colOrZero(c) == IF isNumber(c) THEN c ELSE whole(0)

\* start + c * gap of a fraction c
offsetBy(start, c, gap) == <<start * c[2] + c[1] * gap, c[2]>>

nodeWidth == 140
nodeHeight == 50
horizontalGap == 200
verticalGap == 90
startX == 100
startY == 40

isHorizontal(direction) == direction \in {<<"L", "R">>, <<"R", "L">>}
isReversed(direction) == direction \in {<<"B", "T">>, <<"R", "L">>}
sign(direction) == IF isReversed(direction) THEN -1 ELSE 1

\* The position of a node of a level and column (lines 1116-1135).
coordinates(direction, level, c) ==
  [x |-> gridAlign(IF isHorizontal(direction)
                   THEN whole(startX + sign(direction) * level * horizontalGap)
                   ELSE offsetBy(startX, c, horizontalGap)),
   y |-> gridAlign(IF isHorizontal(direction)
                   THEN offsetBy(startY, c, verticalGap)
                   ELSE whole(startY + sign(direction) * level * verticalGap)),
   width |-> nodeWidth, height |-> nodeHeight]

\* positions after Step 5 (lines 1112-1136), a map of the node ids.
positionsOf(nodeList, direction, nodeLevel, nodeCol) ==
  [id \in {nodeList[k].id : k \in DOMAIN nodeList} |->
     coordinates(direction, levelOrZero(nodeLevel, id), colOrZero(colOf(nodeCol, id)))]

\* calculatePositions(nodes, direction, edges) (lines 871-1140): the
\* positions it returns, with the maps it built on the way.
calculatePositions(nodeList, direction, edgeList) ==
  Const(assignLevelsRoots(initialLevels, edgeList, rootsOf(nodeList, edgeList)),
  LAMBDA s1 :
    Const(treeChildrenMap(nodeList, edgeList, withUnvisited(s1.nodeLevel, nodeList)),
    LAMBDA treeChildren :
      Const(calcSubtreeWidthRoots(initialWidths(s1), treeChildren,
                                  rootsOf(nodeList, edgeList)),
      LAMBDA s3 :
        Const(positionRoots(initialColumns(s3), treeChildren,
                            rootsOf(nodeList, edgeList)),
        LAMBDA s4 :
          [positions |->
             positionsOf(nodeList, direction, withUnvisited(s1.nodeLevel, nodeList),
                         withUnpositioned(s4.nodeCol, nodeList, s4.ret)),
           nodeLevel |-> withUnvisited(s1.nodeLevel, nodeList),
           visited |-> s1.visited,
           back |-> s1.back,
           treeChildren |-> treeChildren,
           subtreeWidth |-> withDefaultWidths(s3.subtreeWidth, nodeList),
           nodeCol |-> withUnpositioned(s4.nodeCol, nodeList, s4.ret),
           calls |-> s4.calls,
           returned |-> ~s4.overrun]))))

\* parsedDiagram.direction || 'TD'
directionOrTD(parsedDiagram) ==
  IF parsedDiagram.direction # null THEN parsedDiagram.direction ELSE TD

\* The layout convertToDrawio computes for the nodes and edges after the
\* synthesis (lines 1273-1278).
layoutOf(g, direction) == calculatePositions(g.nodes, direction, g.edges)

\* ------------------------------------------------------------ emitted cells

\* An mxCell of the document: its id, what it draws and, for a cell with an
\* absolute geometry, its x and y.
cell(id, kind, x, y) == [id |-> id, kind |-> kind, x |-> x, y |-> y]

\* <mxCell id="0"/> and <mxCell id="1" parent="0"/>
rootCells == <<cell(<<"0">>, "root", null, null), cell(<<"1">>, "root", null, null)>>

\* positions.get(node.id) || { x: 340, y: 40, .. } (line 1282)
defaultPosition == [x |-> 340, y |-> 40, width |-> 140, height |-> 50]
positionOr(positions, id, default) ==
  IF id \in DOMAIN positions THEN positions[id] ELSE default

\* nodesXml (lines 1281-1298)
nodeCells(nodeList, positions, default) ==
  [k \in DOMAIN nodeList |->
     cell(nodeList[k].id, "node",
          positionOr(positions, nodeList[k].id, default).x,
          positionOr(positions, nodeList[k].id, default).y)]

\* The key of seenEdges (line 1307).
edgeKey(edge) == edge.source \o <<"-", ">">> \o edge.target

\* The edges left by the filter of duplicates (lines 1305-1311).
RECURSIVE withoutDuplicates(_, _)
withoutDuplicates(edgeList, seenEdges) ==
  IF edgeList = <<>> THEN <<>>
  ELSE IF edgeKey(Head(edgeList)) \in seenEdges
  THEN withoutDuplicates(Tail(edgeList), seenEdges)
  ELSE <<Head(edgeList)>>
       \o withoutDuplicates(Tail(edgeList), seenEdges \cup {edgeKey(Head(edgeList))})

\* edgesXml (lines 1305-1441): the geometry of an edge is relative.
edgeCells(edgeList) ==
  [k \in DOMAIN edgeList |-> cell(edgeList[k].id, "edge", null, null)]

\* subgraphsXml (lines 1444-1467), ids sg0, sg1, ..
subgraphCells(subgraphList) ==
  [k \in DOMAIN subgraphList |-> cell(<<"s", "g">> \o toDigits(k - 1), "subgraph", null, null)]

\* What a conversion gives: the cells of the document in the order they
\* are written, the nodes and edges drawn, and the layout of a flowchart.
noLayout ==
  [positions |-> <<>>, nodeLevel |-> <<>>, visited |-> {}, back |-> {},
   treeChildren |-> <<>>, subtreeWidth |-> <<>>, nodeCol |-> <<>>, calls |-> 0,
   returned |-> TRUE]

document(type, nodeList, edgeList, layout, cells) ==
  [converted |-> TRUE, type |-> type, nodes |-> nodeList, edges |-> edgeList,
   layout |-> layout, cells |-> cells]

\* convertToDrawio after the synthesis (lines 1273-1489).
drawFlowchart(parsedDiagram, g, layout) ==
  document("flowchart", g.nodes, g.edges, layout,
           rootCells \o subgraphCells(parsedDiagram.subgraphs)
             \o nodeCells(g.nodes, layout.positions, defaultPosition)
             \o edgeCells(withoutDuplicates(g.edges, {})))

\* convertToDrawio(parsedDiagram) (lines 1180-1490).
convertToDrawio(parsedDiagram) ==
  Const(synthesize(parsedDiagram), LAMBDA g :
    drawFlowchart(parsedDiagram, g, layoutOf(g, directionOrTD(parsedDiagram))))

\* ---------------------------------------------------- convertSequenceToDrawio

sequenceHorizontalGap == 180

\* positions of the participants (lines 1508-1516): a later participant of
\* the same id replaces the position of an earlier one.
RECURSIVE participantPositions(_, _, _)
participantPositions(positions, participants, index) ==
  IF participants = <<>> THEN positions
  ELSE participantPositions(
         mapSet(positions, Head(participants).id,
                [x |-> startX + index * sequenceHorizontalGap, y |-> startY]),
         Tail(participants), index + 1)

\* lifelinesXml (lines 1531-1543)
lifelineCells(participants) ==
  [k \in DOMAIN participants |->
     cell(participants[k].id \o <<"_", "l", "i", "f", "e", "l", "i", "n", "e">>, "lifeline", null, null)]

\* messagesXml (lines 1546-1562): the messages between known participants,
\* ids msg0, msg1, .. by the index of the message.
RECURSIVE messageCells(_, _, _)
messageCells(messages, positions, index) ==
  IF messages = <<>> THEN <<>>
  ELSE (IF Head(messages).source \in DOMAIN positions
           /\ Head(messages).target \in DOMAIN positions
        THEN <<cell(<<"m", "s", "g">> \o toDigits(index), "message", null, null)>> ELSE <<>>)
       \o messageCells(Tail(messages), positions, index + 1)

\* convertSequenceToDrawio(parsedDiagram) (lines 1492-1579).
convertSequenceToDrawio(parsedDiagram) ==
  Const(participantPositions(<<>>, parsedDiagram.nodes, 0), LAMBDA positions :
    document("sequence", parsedDiagram.nodes, parsedDiagram.edges,
             [noLayout EXCEPT !.positions = positions],
             rootCells \o nodeCells(parsedDiagram.nodes, positions, defaultPosition)
               \o lifelineCells(parsedDiagram.nodes)
               \o messageCells(parsedDiagram.edges, positions, 0)))

\* ------------------------------------------------------- the ER converter
\* The dedicated ER converter the to-drawio command calls.

erHorizontalGap == 300
erVerticalGap == 250
erStartY == 60

\* targetCount.get(e.id) || 0
targetCount(relationships, id) == Len(inEdgesOf(relationships, id))

RECURSIVE junctionTables(_, _)
junctionTables(entities, relationships) ==
  IF entities = <<>> THEN <<>>
  ELSE (IF targetCount(relationships, Head(entities).id) >= 2
        THEN <<Head(entities)>> ELSE <<>>)
       \o junctionTables(Tail(entities), relationships)

RECURSIVE mainEntities(_, _)
mainEntities(entities, relationships) ==
  IF entities = <<>> THEN <<>>
  ELSE (IF targetCount(relationships, Head(entities).id) < 2
        THEN <<Head(entities)>> ELSE <<>>)
       \o mainEntities(Tail(entities), relationships)

\* Math.ceil(Math.sqrt(n))
ceilSqrt(n) == CHOOSE c \in 0..n : c * c >= n /\ \A d \in 0..n : d * d >= n => c <= d

\* cols of the grid layout (lines 116-120)
gridCols(numEntities) ==
  IF numEntities = 4 THEN 2
  ELSE IF numEntities <= 3 THEN numEntities
  ELSE IF ceilSqrt(numEntities) < 2 THEN 2
  ELSE ceilSqrt(numEntities)

\* The x and y of a position; its width and height play no part here.
erPosition(x, y) == [x |-> x, y |-> y]

\* The layout of three entities around one junction table (lines 93-113).
junctionLayout(junction, others) ==
  [id \in {junction.id} \cup {others[k].id : k \in DOMAIN others} |->
     IF id = junction.id
     THEN erPosition(startX + erHorizontalGap, erStartY + erVerticalGap)
     ELSE erPosition(
            startX + ((CHOOSE k \in DOMAIN others : others[k].id = id) - 1)
                       * erHorizontalGap * 2,
            erStartY)]

\* The grid layout (lines 114-142): entity k, counted from 0, stands in
\* column k % cols of row floor(k / cols).
gridLayout(entities) ==
  [id \in {entities[k].id : k \in DOMAIN entities} |->
     Const((CHOOSE k \in DOMAIN entities : entities[k].id = id) - 1, LAMBDA index :
       erPosition(startX + (index % gridCols(Len(entities))) * erHorizontalGap,
                  erStartY + (index \div gridCols(Len(entities))) * erVerticalGap))]

\* calculateERPositions(entities, relationships) (lines 57-145).
calculateERPositions(entities, relationships) ==
  IF Len(entities) = 3 /\ Len(junctionTables(entities, relationships)) = 1
  THEN junctionLayout(junctionTables(entities, relationships)[1],
                      mainEntities(entities, relationships))
  ELSE gridLayout(entities)

\* The rows of an entity: one cell per attribute, or the placeholder
\* (lines 175-195).
attributeCells(entity) ==
  IF Len(entity.attributes) > 0
  THEN [k \in DOMAIN entity.attributes |->
          cell(entity.id \o <<"_", "a", "t", "t", "r">> \o toDigits(k - 1), "attribute", null, null)]
  ELSE <<cell(entity.id \o <<"_", "p", "l", "a", "c", "e", "h", "o", "l", "d", "e", "r">>, "attribute", null, null)>>

erDefaultPosition == [x |-> 100, y |-> 100]

\* entitiesXml (lines 161-198): each entity followed by its rows.
RECURSIVE entityCells(_, _)
entityCells(entities, positions) ==
  IF entities = <<>> THEN <<>>
  ELSE nodeCells(<<Head(entities)>>, positions, erDefaultPosition)
       \o attributeCells(Head(entities))
       \o entityCells(Tail(entities), positions)

\* relationshipsXml (lines 201-258), ids rel_0, rel_1, .. by the index of
\* the relationship.
RECURSIVE relationshipCells(_, _, _)
relationshipCells(relationships, positions, index) ==
  IF relationships = <<>> THEN <<>>
  ELSE (IF Head(relationships).source \in DOMAIN positions
           /\ Head(relationships).target \in DOMAIN positions
        THEN <<cell(<<"r", "e", "l", "_">> \o toDigits(index), "edge", null, null)>> ELSE <<>>)
       \o relationshipCells(Tail(relationships), positions, index + 1)

\* convertERToDrawio(parsedDiagram) of the ER converter (lines 150-285),
\* which the command line imports as convertERToDrawioNew.
convertERToDrawioNew(parsedDiagram) ==
  Const(calculateERPositions(parsedDiagram.nodes, parsedDiagram.edges),
  LAMBDA positions :
    document("erDiagram", parsedDiagram.nodes, parsedDiagram.edges,
             [noLayout EXCEPT !.positions = positions],
             rootCells \o entityCells(parsedDiagram.nodes, positions)
               \o relationshipCells(parsedDiagram.edges, positions, 0)))

\* ----------------------------------------------------- convertMindmapToDrawio

mindmapNodeHeight == 36
levelGap == 200
siblingGap == 15

\* children.get(nodeId) || [] (lines 1670-1679)
mindmapChildren(edgeList, id) == outEdgesOf(edgeList, id)

\* nodes.find((n) => !parent.has(n.id)): the first node that is the target
\* of no edge, as a list of at most one node.
rootNodeOf(nodeList, edgeList) ==
  IF startNodesOf(nodeList, edgeList) = <<>> THEN <<>>
  ELSE <<startNodesOf(nodeList, edgeList)[1]>>

RECURSIVE getSubtreeHeight(_, _)
RECURSIVE sumSubtreeHeights(_, _)

\* The sum of getSubtreeHeight(childId) + siblingGap over the children.
sumSubtreeHeights(edgeList, children) ==
  IF children = <<>> THEN 0
  ELSE getSubtreeHeight(edgeList, Head(children)) + siblingGap
       + sumSubtreeHeights(edgeList, Tail(children))

\* getSubtreeHeight(nodeId) (lines 1692-1702)
getSubtreeHeight(edgeList, id) ==
  IF mindmapChildren(edgeList, id) = <<>> THEN mindmapNodeHeight
  ELSE max(sumSubtreeHeights(edgeList, mindmapChildren(edgeList, id)) - siblingGap,
           mindmapNodeHeight)

\* Sums and halves of fractions, in lowest terms.
RECURSIVE gcd(_, _)
gcd(a, b) == IF b = 0 THEN (IF a < 0 THEN -a ELSE a) ELSE gcd(b, a % b)
lowest(a) == <<a[1] \div gcd(a[1], a[2]), a[2] \div gcd(a[1], a[2])>>
plus(a, b) == lowest(<<a[1] * b[2] + b[1] * a[2], a[2] * b[2]>>)
plusWhole(a, n) == <<a[1] + n * a[2], a[2]>>
half(a) == lowest(<<a[1], 2 * a[2]>>)

RECURSIVE mindmapPositionNode(_, _, _, _, _, _)
RECURSIVE mindmapPositionEach(_, _, _, _, _)

\* nodeChildren.forEach of positionNode (lines 1724-1734)
mindmapPositionEach(positions, edgeList, children, x, currentY) ==
  IF children = <<>> THEN positions
  ELSE mindmapPositionEach(
         mindmapPositionNode(positions, edgeList, Head(children), x + levelGap, currentY,
                             plusWhole(currentY, getSubtreeHeight(edgeList, Head(children)))),
         edgeList, Tail(children), x,
         plusWhole(currentY, getSubtreeHeight(edgeList, Head(children)) + siblingGap))

\* positionNode(nodeId, x, yStart, yEnd) (lines 1705-1735); yCenter is
\* half(plus(yStart, yEnd)).
mindmapPositionNode(positions, edgeList, id, x, yStart, yEnd) ==
  mindmapPositionEach(
    mapSet(positions, id,
           [x |-> gridAlign(whole(x)),
            y |-> gridAlign(plus(half(plus(yStart, yEnd)),
                                 <<-mindmapNodeHeight, 2>>))]),
    edgeList, mindmapChildren(edgeList, id), x,
    plus(half(plus(yStart, yEnd)),
         <<-(sumSubtreeHeights(edgeList, mindmapChildren(edgeList, id)) - siblingGap), 2>>))

\* The positions of the tree of the root node (lines 1738-1742).
mindmapPositions(nodeList, edgeList) ==
  IF rootNodeOf(nodeList, edgeList) = <<>> THEN <<>>
  ELSE mindmapPositionNode(<<>>, edgeList, rootNodeOf(nodeList, edgeList)[1].id, 50,
         whole(50),
         whole(50 + getSubtreeHeight(edgeList, rootNodeOf(nodeList, edgeList)[1].id)))

mindmapDefaultPosition == [x |-> 100, y |-> 100]

\* convertMindmapToDrawio(parsedDiagram) (lines 1663-1785).
convertMindmapToDrawio(parsedDiagram) ==
  Const(mindmapPositions(parsedDiagram.nodes, parsedDiagram.edges), LAMBDA positions :
    document("mindmap", parsedDiagram.nodes, parsedDiagram.edges,
             [noLayout EXCEPT !.positions = positions],
             rootCells \o nodeCells(parsedDiagram.nodes, positions, mindmapDefaultPosition)
               \o edgeCells(parsedDiagram.edges)))

\* ---------------------------------------------------------- convertERToDrawio

\* The grid of convertERToDrawio (lines 1598-1610): entity k, counted from
\* 0, stands in column k % cols of row floor(k / cols), cols being
\* Math.ceil(Math.sqrt(entities.length)); a later entity of the same id
\* replaces the position of an earlier one.
RECURSIVE entityPositions(_, _, _, _)
entityPositions(positions, entities, index, cols) ==
  IF entities = <<>> THEN positions
  ELSE entityPositions(
         mapSet(positions, Head(entities).id,
                erPosition(startX + (index % cols) * 250, startY + (index \div cols) * 150)),
         Tail(entities), index + 1, cols)

\* The rows of an entity (lines 1625-1627).
attributeRows(entity) ==
  [k \in DOMAIN entity.attributes |->
     cell(entity.id \o <<"_", "a", "t", "t", "r">> \o toDigits(k - 1), "attribute", null, null)]

RECURSIVE entitiesXml(_, _)
entitiesXml(entities, positions) ==
  IF entities = <<>> THEN <<>>
  ELSE nodeCells(<<Head(entities)>>, positions, erDefaultPosition)
       \o attributeRows(Head(entities))
       \o entitiesXml(Tail(entities), positions)

\* relationshipsXml (lines 1632-1642): the cell of a relationship has the
\* id of the relationship.
RECURSIVE relationshipsXml(_, _)
relationshipsXml(relationships, positions) ==
  IF relationships = <<>> THEN <<>>
  ELSE (IF Head(relationships).source \in DOMAIN positions
           /\ Head(relationships).target \in DOMAIN positions
        THEN <<cell(Head(relationships).id, "edge", null, null)>> ELSE <<>>)
       \o relationshipsXml(Tail(relationships), positions)

\* convertERToDrawio(parsedDiagram) of the converter of toDrawio
\* (lines 1584-1661).
convertERToDrawio(parsedDiagram) ==
  Const(entityPositions(<<>>, parsedDiagram.nodes, 0, ceilSqrt(Len(parsedDiagram.nodes))),
  LAMBDA positions :
    document("erDiagram", parsedDiagram.nodes, parsedDiagram.edges,
             [noLayout EXCEPT !.positions = positions],
             rootCells \o entitiesXml(parsedDiagram.nodes, positions)
               \o relationshipsXml(parsedDiagram.edges, positions)))

\* -------------------------------------------------------------------- toDrawio

\* toDrawio(parsedDiagram) (lines 1790-1802).
toDrawio(parsedDiagram) ==
  IF parsedDiagram.type = "sequence" THEN convertSequenceToDrawio(parsedDiagram)
  ELSE IF parsedDiagram.type = "erDiagram" THEN convertERToDrawio(parsedDiagram)
  ELSE IF parsedDiagram.type = "mindmap" THEN convertMindmapToDrawio(parsedDiagram)
  ELSE convertToDrawio(parsedDiagram)

\* The conversion of the to-drawio command (lines 787-792 of the command
\* line): the ER converter for an ER diagram, toDrawio for the others.
toDrawioCommand(parsed) ==
  IF parsed.type = "erDiagram" THEN convertERToDrawioNew(parsed) ELSE toDrawio(parsed)

\* --------------------------------------------------------------- the program

VARIABLES input, pc, lines, direction, i, nodes, edges, subgraphs, currentSubgraph,
          inEntityBlock, currentEntity, nodeStack, nodeId, result, validation, drawing

locals ==
  [nodes |-> nodes, edges |-> edges, subgraphs |-> subgraphs,
   currentSubgraph |-> currentSubgraph, inEntityBlock |-> inEntityBlock,
   currentEntity |-> currentEntity, nodeStack |-> nodeStack, nodeId |-> nodeId]

vars ==
  <<input, pc, lines, direction, i, nodes, edges, subgraphs, currentSubgraph,
    inEntityBlock, currentEntity, nodeStack, nodeId, result, validation, drawing>>

Scanners == {"flowchart", "sequence", "erDiagram", "mindmap"}

noResult ==
  [threw |-> FALSE, type |-> "", direction |-> null,
   nodes |-> <<>>, edges |-> <<>>, subgraphs |-> <<>>]
noValidation ==
  [isValid |-> FALSE, compatibility |-> "", issues |-> <<>>, warnings |-> <<>>,
   nodeCount |-> 0, edgeCount |-> 0, diagramType |-> ""]

\* No document yet.
noDrawing ==
  [converted |-> FALSE, type |-> "", nodes |-> <<>>, edges |-> <<>>,
   layout |-> noLayout, cells |-> <<>>]

Init ==
  /\ input \in Inputs
  /\ pc = "ready"
  /\ lines = <<>>
  /\ direction = null
  /\ i = 0
  /\ nodes = initialLocals.nodes
  /\ edges = initialLocals.edges
  /\ subgraphs = initialLocals.subgraphs
  /\ currentSubgraph = initialLocals.currentSubgraph
  /\ inEntityBlock = initialLocals.inEntityBlock
  /\ currentEntity = initialLocals.currentEntity
  /\ nodeStack = initialLocals.nodeStack
  /\ nodeId = initialLocals.nodeId
  /\ result = noResult
  /\ validation = noValidation
  /\ drawing = noDrawing

\* The throw of parseMermaid, or the entry into the scanner it calls.
Enter(d) ==
  IF d.threw
  THEN /\ pc' = "failed"
       /\ result' = thrown
       /\ UNCHANGED <<lines, direction, i>>
  ELSE /\ pc' = d.scanner
       /\ lines' = d.lines
       /\ direction' = d.direction
       /\ i' = 1
       /\ UNCHANGED result

\* parseMermaid(input) from its entry to the throw or to the scanner's loop
ParseMermaid ==
  /\ pc = "ready"
  /\ Enter(dispatch(input))
  /\ UNCHANGED <<input, nodes, edges, subgraphs, currentSubgraph, inEntityBlock,
                 currentEntity, nodeStack, nodeId, validation, drawing>>

\* The end of one iteration of a scanner's loop, s being its variables.
Iterate(s) ==
  /\ nodes' = s.nodes
  /\ edges' = s.edges
  /\ subgraphs' = s.subgraphs
  /\ currentSubgraph' = s.currentSubgraph
  /\ inEntityBlock' = s.inEntityBlock
  /\ currentEntity' = s.currentEntity
  /\ nodeStack' = s.nodeStack
  /\ nodeId' = s.nodeId
  /\ i' = i + 1
  /\ UNCHANGED <<input, pc, lines, direction, result, validation, drawing>>

FlowchartLine ==
  /\ pc = "flowchart"
  /\ i < Len(lines)
  /\ Iterate(flowchartLine(locals, lines[i + 1]))

SequenceLine ==
  /\ pc = "sequence"
  /\ i < Len(lines)
  /\ Iterate(sequenceLine(locals, lines[i + 1]))

ERLine ==
  /\ pc = "erDiagram"
  /\ i < Len(lines)
  /\ Iterate(erLine(locals, lines[i + 1]))

MindmapLine ==
  /\ pc = "mindmap"
  /\ i < Len(lines)
  /\ Iterate(mindmapLine(locals, lines[i + 1]))

\* The scanner's return statement, which is parseMermaid's return value.
Return ==
  /\ pc \in Scanners
  /\ i >= Len(lines)
  /\ result' = scannerReturn(pc, locals, direction)
  /\ pc' = "done"
  /\ UNCHANGED <<input, lines, direction, i, nodes, edges, subgraphs, currentSubgraph,
                 inEntityBlock, currentEntity, nodeStack, nodeId, validation, drawing>>

\* The validate command on the same input.
Validate ==
  /\ pc = "ready"
  /\ validation' = validateCommand(input)
  /\ pc' = "validated"
  /\ UNCHANGED <<input, lines, direction, i, nodes, edges, subgraphs, currentSubgraph,
                 inEntityBlock, currentEntity, nodeStack, nodeId, result, drawing>>

\* What no action changes once parseMermaid has returned.
Parsed ==
  UNCHANGED <<input, lines, direction, i, nodes, edges, subgraphs, currentSubgraph,
              inEntityBlock, currentEntity, nodeStack, nodeId, result, validation>>

\* The to-drawio command after parseMermaid has returned: the document of
\* the ER converter for an ER diagram, of toDrawio for the others.
ToDrawio ==
  /\ pc = "done"
  /\ drawing' = toDrawioCommand(result)
  /\ pc' = "drawn"
  /\ Parsed

\* The convert command after parseMermaid has returned: the document of
\* toDrawio.
Convert ==
  /\ pc = "done"
  /\ drawing' = toDrawio(result)
  /\ pc' = "drawn"
  /\ Parsed

Next ==
  \/ ParseMermaid
  \/ FlowchartLine
  \/ SequenceLine
  \/ ERLine
  \/ MindmapLine
  \/ Return
  \/ Validate
  \/ ToDrawio
  \/ Convert

Spec == Init /\ [][Next]_vars


\* ---------------------------------------------------------------- properties

\* What a result says of the graph: type, direction, nodes and edges.
Graph(r) == <<r.threw, r.type, r.direction, r.nodes, r.edges>>

\* The input is not written inside a fence.
Unfenced(text) == ~startsWith(trim(text), Fence)

\* The first non-blank line of the diagram text (the input without the
\* fence markers the parser removes), trimmed and in lower case.
FirstLine(text) == toLowerCase(trim(filterNonBlank(split(stripFences(text)))[1]))

\* The dialect a first line declares, "other" for any other line.
TypeDeclaredBy(first) ==
  IF startsWith(first, toLowerCase(<<"f", "l", "o", "w", "c", "h", "a", "r", "t">>)) \/ startsWith(first, toLowerCase(<<"g", "r", "a", "p", "h">>))
  THEN "flowchart"
  ELSE IF startsWith(first, toLowerCase(<<"s", "e", "q", "u", "e", "n", "c", "e", "D", "i", "a", "g", "r", "a", "m">>)) THEN "sequence"
  ELSE IF startsWith(first, toLowerCase(<<"e", "r", "D", "i", "a", "g", "r", "a", "m">>)) THEN "erDiagram"
  ELSE IF startsWith(first, toLowerCase(<<"m", "i", "n", "d", "m", "a", "p">>)) THEN "mindmap"
  ELSE "other"

TypeFollows(declared, r) ==
  IF declared = "other"
  THEN r.type = "flowchart" /\ r.direction = TD
  ELSE r.type = declared

\* C1: whenever parseMermaid returns, the type of its result is the dialect
\* that the first non-blank line of the diagram text declares, compared
\* without regard to case (flowchart for flowchart and graph, sequence,
\* erDiagram, mindmap), and for every other first line the result is a
\* flowchart with direction TD.
C1_TypeByFirstLine ==
  pc = "done" => TypeFollows(TypeDeclaredBy(FirstLine(input)), result)

\* An upper-case sequenceDiagram header has been parsed as a sequence diagram.
C1_Witness ==
  /\ pc = "done"
  /\ startsWith(input, <<"S", "E", "Q", "U", "E", "N", "C", "E", "D", "I", "A", "G", "R", "A", "M">>)
  /\ result.type = "sequence"

Blank(text) == \A k \in DOMAIN text : text[k] \in SpaceChars

\* A fence marker: three backquotes and a language tag, which may be empty.
FenceMarker(line) ==
  /\ startsWith(line, Fence)
  /\ \A k \in 4..Len(line) : line[k] \in WordChars

\* The text holds fence markers, at least one, and nothing else.
OnlyFenceMarkers(text) ==
  /\ ~Blank(text)
  /\ \A k \in DOMAIN split(text) :
       Blank(split(text)[k]) \/ FenceMarker(trim(split(text)[k]))

\* C2: for an input that is empty, white space only, or fence markers only,
\* parseMermaid throws 'Empty Mermaid diagram' and returns no graph, and
\* the validate command on that input still ends with a validation whose
\* nodeCount and edgeCount are 0.
C2_EmptyDiagramRaises ==
  (Blank(input) \/ OnlyFenceMarkers(input)) =>
     /\ pc \notin {"ready", "validated"} => pc = "failed" /\ result = thrown
     /\ pc = "validated" => validation.nodeCount = 0 /\ validation.edgeCount = 0

\* T between an opening fence with the tag and a closing fence.
Fenced(tag, text) == tag \o <<"\n">> \o text \o <<"\n">> \o Fence

\* C3: for a diagram text T that parses, parseMermaid of T wrapped in one
\* opening fence (bare, tagged mermaid, or tagged otherwise) and one
\* closing fence returns the graph parseMermaid(T) returns.
C3_FenceTransparent ==
  (pc = "done" /\ Unfenced(input)) =>
     \A tag \in FenceTags : Graph(parseMermaid(Fenced(tag, input))) = Graph(result)

\* a with x inserted after its first k elements
InsertAt(a, k, x) == SubSeq(a, 1, k) \o <<x>> \o SubSeq(a, k + 1, Len(a))

\* C4: for an input that parses, inserting a comment line or a blank line
\* anywhere, before the header line included, leaves the type, the
\* direction, the nodes and the edges parseMermaid returns unchanged.
C4_CommentsTransparent ==
  (pc = "done" /\ Unfenced(input)) =>
     \A k \in 0..Len(split(input)) : \A x \in {<<"%", "%", " ", "n", "o", "t", "e">>, <<>>} :
        Graph(parseMermaid(join(InsertAt(split(input), k, x)))) = Graph(result)

\* The delimiters of the three shapes that a more general shape would
\* also match, and of all six shapes.
Precedence ==
  {[open |-> <<"(", "[">>, close |-> <<"]", ")">>, shape |-> "stadium"],
   [open |-> <<"(", "(">>, close |-> <<")", ")">>, shape |-> "circle"],
   [open |-> <<"[", "[">>, close |-> <<"]", "]">>, shape |-> "subroutine"]}
Delimiters ==
  {<<<<"(", "[">>, <<"]", ")">>>>, <<<<"(", "(">>, <<")", ")">>>>, <<<<"[", "[">>, <<"]", "]">>>>, <<<<"[">>, <<"]">>>>, <<<<"(">>, <<")">>>>, <<<<"{">>, <<"}">>>>}

\* f is open, a non-empty text without the first character of close, close.
Wraps(f, open, close) ==
  /\ Len(f) > Len(open) + Len(close)
  /\ startsWith(f, open)
  /\ At(f, Len(f) - Len(close) + 1, close)
  /\ \A k \in (Len(open) + 1)..(Len(f) - Len(close)) : f[k] # close[1]

NoPatternMatches(f) == \A d \in Delimiters : ~Wraps(f, d[1], d[2])

ClosingFree(label) == \A k \in DOMAIN label : label[k] \notin Closers

\* The node A of the result has the shape.
ShapeOfA(r, shape) == has(r.nodes, <<"A">>) /\ get(r.nodes, <<"A">>).shape = shape

\* The node A of the result is the default rectangle labelled by f trimmed.
DefaultOfA(r, f) ==
  /\ ShapeOfA(r, "rectangle")
  /\ get(r.nodes, <<"A">>).label = trim(f)

DeclaresShape(line, id) ==
  \E pos \in 1..Len(line) :
     /\ At(line, pos, id)
     /\ pos + Len(id) <= Len(line)
     /\ line[pos + Len(id)] \in Openers
     /\ pos = 1 \/ line[pos - 1] \notin WordChars

\* C6: in the flowchart scanner a line that does not write an inline shape
\* for the id of a node already known leaves that node (shape, label and
\* style) as it was; only a line that declares the id with an inline shape
\* changes it.
C6_BareReferenceKeepsShape ==
  [][(pc = "flowchart" /\ i < Len(lines)) =>
        \A k \in DOMAIN nodes :
           \/ DeclaresShape(trim(lines[i + 1]), nodes[k].id)
           \/ has(nodes', nodes[k].id) /\ get(nodes', nodes[k].id) = nodes[k]]_vars

\* A[x] --> B has been scanned, then A --> B, and A is still labelled x.
C6_Witness ==
  /\ pc = "flowchart"
  /\ i = 3
  /\ lines = <<<<"f", "l", "o", "w", "c", "h", "a", "r", "t", " ", "L", "R">>, <<"A", "[", "x", "]", " ", "-", "-", ">", " ", "B">>, <<"A", " ", "-", "-", ">", " ", "B">>>>
  /\ get(nodes, <<"A">>).label = <<"x">>

\* C7: in every dialect the source and the target of each returned edge
\* are ids of returned nodes.
C7_EdgesResolve ==
  pc = "done" =>
     \A k \in DOMAIN result.edges :
        /\ has(result.nodes, result.edges[k].source)
        /\ has(result.nodes, result.edges[k].target)

\* C8: in every dialect no two returned nodes have the same id.
C8_UniqueIds ==
  pc = "done" =>
     \A j, k \in DOMAIN result.nodes :
        j # k => result.nodes[j].id # result.nodes[k].id

WordOnly(id) == id # <<>> /\ \A k \in DOMAIN id : id[k] \in WordChars

\* C9: in a flowchart or ER result every node id, edge source and edge
\* target is made of letters, digits and underscores only.
C9_WordIds ==
  (pc = "done" /\ result.type \in {"flowchart", "erDiagram"}) =>
     /\ \A k \in DOMAIN result.nodes : WordOnly(result.nodes[k].id)
     /\ \A k \in DOMAIN result.edges :
          WordOnly(result.edges[k].source) /\ WordOnly(result.edges[k].target)

\* C10: the validation is valid exactly when it lists no issue, and its
\* compatibility is high without issues and warnings, medium with warnings
\* only, low with an issue.
C10_Verdict ==
  pc = "validated" =>
     /\ validation.isValid <=> validation.issues = <<>>
     /\ validation.compatibility =
          IF validation.issues # <<>> THEN "low"
          ELSE IF validation.warnings # <<>> THEN "medium"
          ELSE "high"

\* A validation with warnings and no issue has been graded medium.
C10_Witness ==
  /\ pc = "validated"
  /\ validation.issues = <<>>
  /\ validation.warnings # <<>>
  /\ validation.compatibility = "medium"

\* ------------------------------------------------- properties of the validator

\* The leading identifier of a line: its text up to the first opening
\* delimiter or white space.
RECURSIVE LeadingToken(_)
LeadingToken(line) ==
  IF line = <<>> \/ Head(line) \in Openers \cup SpaceChars THEN <<>>
  ELSE <<Head(line)>> \o LeadingToken(Tail(line))

\* The text of a line after its leading identifier.
AfterToken(line) == trimStart(SubSeq(line, Len(LeadingToken(line)) + 1, Len(line)))

\* The line declares a node or starts a connection: its leading identifier
\* is followed by an opening delimiter or by a link.
NodeOrSourceLine(line) ==
  /\ LeadingToken(line) # <<>>
  /\ \/ AfterToken(line) # <<>> /\ Head(AfterToken(line)) \in Openers
     \/ startsWith(AfterToken(line), <<"-", "-">>)

\* C11: after validation of an unfenced text, every line that declares a
\* node or starts a connection with a leading identifier holding a character
\* other than a letter, digit or underscore has an issue of its line number
\* that names the identifier.
C11_InvalidIdReported ==
  (pc = "validated" /\ Unfenced(input)) =>
     \A n \in DOMAIN split(trim(input)) :
        Const(trim(split(trim(input))[n]), LAMBDA line :
          (NodeOrSourceLine(line) /\ ~WordOnly(LeadingToken(line))) =>
             \E k \in DOMAIN validation.issues :
                validation.issues[k] =
                  finding(n, "Invalid node ID", LeadingToken(line)))

\* The type the parser detects for a text with a non-blank line.
DetectedType(text) ==
  detectDiagramType(filterNonBlank(split(stripFences(text)))).type

HasTypeIssue(v) ==
  \E k \in DOMAIN v.issues :
     v.issues[k].issue = "Missing or invalid diagram type declaration"

\* C12: after validation of a text with a non-blank line left by the parser's
\* fence removal, the validation lists the missing-type issue exactly when
\* the parser detects the unknown type for the same text.
C12_TypeCheckAgrees ==
  (pc = "validated" /\ filterNonBlank(split(stripFences(input))) # <<>>) =>
     (HasTypeIssue(validation) <=> DetectedType(input) = "unknown")

\* ------------------------------------------------ properties of the ER scanner

\* The entity of a name in a list of entities.
EntityOf(entities, name) == get(entities, name)

\* The step reads the relationship line of e1, c1, c2, e2 and label.
ReadsRelationship(e1, c1, c2, e2, label) ==
  /\ pc = "erDiagram"
  /\ i < Len(lines)
  /\ trim(lines[i + 1]) = RelationshipLine(e1, c1, c2, e2, label)

\* What the step does with the relationship line: the entities already
\* present are kept as they are, e1 and e2 are present afterwards, each new
\* one without attributes, nothing else is created, and one relationship of
\* the line's source, target, cardinalities and label is appended.
AddsRelationship(e1, c1, c2, e2, label) ==
  /\ \A k \in DOMAIN nodes : nodes'[k] = nodes[k]
  /\ has(nodes', e1) /\ has(nodes', e2)
  /\ \A k \in DOMAIN nodes' :
        k > Len(nodes) => nodes'[k] \in {emptyEntity(e1), emptyEntity(e2)}
  /\ Len(nodes') = Len(nodes) + Cardinality({e1, e2} \ {nodes[k].id : k \in DOMAIN nodes})
  /\ Len(edges') = Len(edges) + 1
  /\ SubSeq(edges', 1, Len(edges)) = edges
  /\ LET r == edges'[Len(edges')]
     IN /\ r.source = e1 /\ r.target = e2
        /\ r.cardinality1 = c1 /\ r.cardinality2 = c2
        /\ r.label = label

\* C18: a step of the ER scanner on the line E1 C1--C2 E2 : "L", for every
\* pair of cardinality tokens, keeps the entities present, creates E1 and E2
\* without attributes when absent, and appends exactly one relationship
\* from E1 to E2 with cardinalities C1 and C2 and label L.
C18_RelationshipLine ==
  [][\A c1 \in Cardinalities, c2 \in Cardinalities, e2 \in {<<"A">>, <<"B">>},
        label \in RelationshipLabels :
        ReadsRelationship(<<"A">>, c1, c2, e2, label) =>
           AddsRelationship(<<"A">>, c1, c2, e2, label)]_vars

\* The relationship A }|--{o B has been read after the declaration of B
\* with an attribute: B keeps its attribute, A is new and empty.
C18_Witness ==
  /\ pc = "erDiagram"
  /\ i = 3
  /\ trim(lines[3]) = RelationshipLine(<<"A">>, <<"}", "|">>, <<"{", "o">>, <<"B">>, <<"h", "a", "s">>)
  /\ Len(edges) = 1
  /\ edges[1].cardinality1 = <<"}", "|">> /\ edges[1].cardinality2 = <<"{", "o">>
  /\ has(nodes, <<"A">>) /\ has(nodes, <<"B">>)
  /\ get(nodes, <<"B">>).attributes # <<>>
  /\ get(nodes, <<"A">>).attributes = <<>>

\* ------------------------------------------------- claims on the drawing

\* A flowchart has been converted: drawing holds its nodes and edges after
\* the synthesis, the layout of calculatePositions and the cells written.
DrawnFlowchart == pc = "drawn" /\ drawing.type = "flowchart"

drawnIds == {drawing.nodes[k].id : k \in DOMAIN drawing.nodes}
HasEdge(source, target) ==
  \E k \in DOMAIN drawing.edges :
    drawing.edges[k].source = source /\ drawing.edges[k].target = target

\* C13: calculatePositions returns on every flowchart (cycles, self-loops,
\* duplicate edges, no node without incoming edge), and then every node has
\* a level in 0 .. number of nodes - 1 and an entry in positions; a node
\* that no call of assignLevels visited has level 0.
C13_LayoutReturns ==
  DrawnFlowchart =>
    /\ drawing.layout.returned
    /\ \A id \in drawnIds :
         /\ id \in DOMAIN drawing.layout.nodeLevel
         /\ drawing.layout.nodeLevel[id] \in 0..(Len(drawing.nodes) - 1)
         /\ id \in DOMAIN drawing.layout.positions
         /\ (id \notin drawing.layout.visited => drawing.layout.nodeLevel[id] = 0)

\* A flowchart drawn with a self-loop, a node of level 2 or more, and a
\* node that was never visited.
C13_Witness ==
  /\ DrawnFlowchart
  /\ drawing.layout.returned
  /\ \E id \in drawnIds : HasEdge(id, id)
  /\ \E id \in drawnIds : id \notin drawing.layout.visited
  /\ \E id \in drawnIds : drawing.layout.nodeLevel[id] >= 2

\* The same on a flowchart where every node has an incoming edge, so that
\* the first node is taken as the root, one connection is written twice
\* and an edge leads back to a node of the active path.
C13_NoRoot ==
  /\ DrawnFlowchart
  /\ startNodesOf(drawing.nodes, drawing.edges) = <<>>
  /\ \E j, k \in DOMAIN drawing.edges :
       j # k /\ edgeKey(drawing.edges[j]) = edgeKey(drawing.edges[k])
  /\ drawing.layout.back # {}
  /\ drawing.layout.returned
  /\ \A id \in drawnIds : id \in DOMAIN drawing.layout.positions


\* A diagram of any dialect has been converted.
Drawn == pc = "drawn" /\ drawing.converted

isFractional(c) == isNumber(c) /\ c[1] % c[2] # 0
onGrid(n) == n \in Int /\ n % 10 = 0

\* C14: in the document of every dialect and direction, the x and y of
\* every node (and of every entry of the positions of a flowchart) are
\* multiples of 10, whether the column of the node is whole, fractional,
\* undefined or NaN.
C14_OnGrid ==
  Drawn =>
    /\ \A k \in DOMAIN drawing.cells :
         drawing.cells[k].kind = "node" =>
           onGrid(drawing.cells[k].x) /\ onGrid(drawing.cells[k].y)
    /\ \A id \in DOMAIN drawing.layout.positions :
         onGrid(drawing.layout.positions[id].x) /\ onGrid(drawing.layout.positions[id].y)

\* A flowchart drawn from left to right with a node centered between its
\* branches on a fractional column, whose y before the alignment is not a
\* multiple of 10.
C14_Witness ==
  /\ DrawnFlowchart
  /\ isHorizontal(directionOrTD(result))
  /\ \E id \in drawnIds :
       /\ isFractional(drawing.layout.nodeCol[id])
       /\ (2 * offsetBy(startY, drawing.layout.nodeCol[id], verticalGap)[1])
            % (20 * drawing.layout.nodeCol[id][2]) # 0
       /\ onGrid(drawing.layout.positions[id].y)

\* A flowchart drawn with a node whose column is NaN, its tree edges
\* closing a cycle.
C14_Cycle ==
  /\ DrawnFlowchart
  /\ \E id \in drawnIds :
       /\ drawing.layout.nodeCol[id] = NaN
       /\ onGrid(drawing.layout.positions[id].x)
       /\ onGrid(drawing.layout.positions[id].y)

\* Converted diagrams of the other dialects with nodes placed.
C14_Others ==
  /\ Drawn
  /\ drawing.type \in {"sequence", "erDiagram", "mindmap"}
  /\ \E k \in DOMAIN drawing.cells : drawing.cells[k].kind = "node" /\ drawing.cells[k].x > 100

idsOf(list) == [k \in DOMAIN list |-> list[k].id]
cellIds(kind) ==
  {drawing.cells[k].id : k \in {j \in DOMAIN drawing.cells : drawing.cells[j].kind = kind}}

MinimalFlowchart == <<"f", "l", "o", "w", "c", "h", "a", "r", "t", " ", "T", "D", "\n", "A", "[", "S", "t", "a", "r", "t", "]", " ", "-", "-", ">", " ", "B", "[", "E", "n", "d", "]">>

\* C15: parseMermaid of flowchart TD with the line A[Start] --> B[End]
\* returns the nodes A and B, the one edge from A to B and direction TD;
\* its conversion adds no Start and no Stop: the nodes and edges drawn
\* are the nodes and edges parsed.
C15_MinimalFlowchart ==
  input = MinimalFlowchart /\ pc \in {"done", "drawn"} =>
    /\ ~result.threw
    /\ idsOf(result.nodes) = <<<<"A">>, <<"B">>>>
    /\ Len(result.edges) = 1
    /\ result.edges[1].source = <<"A">> /\ result.edges[1].target = <<"B">>
    /\ result.direction = <<"T", "D">>
    /\ pc = "drawn" =>
         /\ drawing.nodes = result.nodes
         /\ drawing.edges = result.edges
         /\ cellIds("node") = {<<"A">>, <<"B">>}
         /\ cellIds("edge") = {result.edges[1].id}

C15_Witness ==
  /\ input = MinimalFlowchart
  /\ pc = "drawn"
  /\ drawing.type = "flowchart"
  /\ result.nodes[1].label = <<"S", "t", "a", "r", "t">> /\ result.nodes[2].label = <<"E", "n", "d">>
  /\ Len(drawing.cells) = 5

\* Some node's id or label is one of the names, letter case apart.
namedLike(list, names) ==
  \E k \in DOMAIN list :
    toLowerCase(list[k].id) \in names \/ toLowerCase(list[k].label) \in names

\* The synthesized terminals are the first and the last node drawn.
StartAdded == drawing.nodes # <<>> /\ drawing.nodes[1] = startNode
StopAdded == drawing.nodes # <<>> /\ drawing.nodes[Len(drawing.nodes)] = stopNode

edgesBetween(source, target) ==
  {k \in DOMAIN drawing.edges :
     drawing.edges[k].source = source /\ drawing.edges[k].target = target}

\* Start has one edge to every node without incoming edge, and no other.
StartWired ==
  /\ \A k \in DOMAIN result.nodes :
       Cardinality(edgesBetween(<<"S", "t", "a", "r", "t">>, result.nodes[k].id))
         = (IF inEdgesOf(result.edges, result.nodes[k].id) = <<>> THEN 1 ELSE 0)
\* Stop has one edge from every node without outgoing edge, and no other.
StopWired ==
  /\ \A k \in DOMAIN result.nodes :
       Cardinality(edgesBetween(result.nodes[k].id, <<"S", "t", "o", "p">>))
         = (IF outEdgesOf(result.edges, result.nodes[k].id) = <<>> THEN 1 ELSE 0)

\* C16: converting a flowchart adds no Start when some node's id or label
\* is start in any letter case, and no Stop when some node's id or label is
\* stop or end in any letter case; otherwise Start is added with one edge
\* to every node without incoming edge when there is one, and Stop with one
\* edge from every node without outgoing edge when there is one.
C16_Synthesis ==
  DrawnFlowchart =>
    /\ IF namedLike(result.nodes, {<<"s", "t", "a", "r", "t">>}) THEN ~StartAdded
       ELSE startNodesOf(result.nodes, result.edges) # <<>> => StartAdded /\ StartWired
    /\ IF namedLike(result.nodes, {<<"s", "t", "o", "p">>, <<"e", "n", "d">>}) THEN ~StopAdded
       ELSE endNodesOf(result.nodes, result.edges) # <<>> => StopAdded /\ StopWired

\* The half of C16 that holds: without a node named so in any letter case,
\* the terminals are added and wired.
C16_Otherwise ==
  DrawnFlowchart =>
    /\ ~namedLike(result.nodes, {<<"s", "t", "a", "r", "t">>})
         /\ startNodesOf(result.nodes, result.edges) # <<>> => StartAdded /\ StartWired
    /\ ~namedLike(result.nodes, {<<"s", "t", "o", "p">>, <<"e", "n", "d">>})
         /\ endNodesOf(result.nodes, result.edges) # <<>> => StopAdded /\ StopWired

\* The checks of the code: an id spelled Start, Stop or End, or a label
\* that is start, stop or end in any letter case, and then no terminal.
C16_ExactIds ==
  DrawnFlowchart =>
    /\ hasStartNode(result.nodes) => ~StartAdded
    /\ hasStopNode(result.nodes) => ~StopAdded

StopLikeFlowchart == <<"f", "l", "o", "w", "c", "h", "a", "r", "t", " ", "T", "D", "\n", "X", "[", "G", "o", "]", " ", "-", "-", ">", " ", "Y", "[", "S", "t", "o", "p", "2", "]">>

\* C17 as stated: converting flowchart TD with the line X[Go] --> Y[Stop2]
\* adds a Start node wired to X and adds no Stop node.
C17_StartOnly ==
  input = StopLikeFlowchart /\ pc = "drawn" =>
    /\ StartAdded
    /\ Cardinality(edgesBetween(<<"S", "t", "a", "r", "t">>, <<"X">>)) = 1
    /\ ~StopAdded
    /\ <<"S", "t", "o", "p">> \notin cellIds("node")

\* C17 as the code has it: Stop2 is neither stop nor end, so both terminals
\* are added: Start with its one edge to X, and Stop with its one edge
\* from Y; the nodes drawn are Start, X, Y, Stop.
C17_BothTerminals ==
  input = StopLikeFlowchart /\ pc = "drawn" =>
    /\ StartAdded
    /\ edgesBetween(<<"S", "t", "a", "r", "t">>, <<"X">>) # {}
    /\ \A k \in DOMAIN drawing.edges :
         drawing.edges[k].source = <<"S", "t", "a", "r", "t">> => drawing.edges[k].target = <<"X">>
    /\ StopAdded
    /\ edgesBetween(<<"Y">>, <<"S", "t", "o", "p">>) # {}
    /\ \A k \in DOMAIN drawing.edges :
         drawing.edges[k].target = <<"S", "t", "o", "p">> => drawing.edges[k].source = <<"Y">>
    /\ idsOf(drawing.nodes) = <<<<"S", "t", "a", "r", "t">>, <<"X">>, <<"Y">>, <<"S", "t", "o", "p">>>>
    /\ cellIds("node") = {<<"S", "t", "a", "r", "t">>, <<"X">>, <<"Y">>, <<"S", "t", "o", "p">>}

C17_Witness ==
  /\ input = StopLikeFlowchart
  /\ pc = "drawn"
  /\ drawing.type = "flowchart"
  /\ result.nodes[2].label = <<"S", "t", "o", "p", "2">>
  /\ Len(drawing.edges) = 3

\* C19: in the document of every dialect, no two cells (root cells 0 and
\* 1, subgraphs, nodes, lifelines, attribute rows, edges, messages) have
\* the same id.
C19_DistinctIds ==
  Drawn =>
    \A j, k \in DOMAIN drawing.cells :
      j # k => drawing.cells[j].id # drawing.cells[k].id

\* The ids of the cells of one kind are distinct in a flowchart: the
\* clashes are between a node and a cell of another kind.
C19_DistinctWithinKind ==
  DrawnFlowchart =>
    \A j, k \in DOMAIN drawing.cells :
      j # k /\ drawing.cells[j].kind = drawing.cells[k].kind
        => drawing.cells[j].id # drawing.cells[k].id

levelOf(id) == drawing.layout.nodeLevel[id]
isTreeEdge(u, v) ==
  \E k \in DOMAIN drawing.layout.treeChildren[u] : drawing.layout.treeChildren[u][k] = v
outgoingEdges(u) == Len(outEdgesOf(drawing.edges, u))

\* The edge u -> v led back to a node of the active path when u was
\* expanded, and only the rule of more than one outgoing edge makes it a
\* tree edge.
isBackEdgeOfDecision(u, v) ==
  /\ <<u, v>> \in drawing.layout.back
  /\ outgoingEdges(u) > 1
  /\ ~(levelOf(v) > levelOf(u))

\* C20: after the levels are assigned, every tree edge u -> v of Step 2
\* has level(v) >= level(u) + 1, unless it is a back-edge that only the
\* rule of more than one outgoing edge admits.
C20_TreeEdgesDescend ==
  DrawnFlowchart =>
    \A u \in drawnIds : \A v \in drawnIds :
      isTreeEdge(u, v) => levelOf(v) >= levelOf(u) + 1 \/ isBackEdgeOfDecision(u, v)

\* The same for the tree edges that leave a node assignLevels visited: it
\* holds there.
C20_AmongVisited ==
  DrawnFlowchart =>
    \A u \in drawnIds \cap drawing.layout.visited : \A v \in drawnIds :
      isTreeEdge(u, v) => levelOf(v) >= levelOf(u) + 1 \/ isBackEdgeOfDecision(u, v)

\* A back-edge of a decision node is a tree edge in some flowchart drawn.
C20_BackEdgeAdmitted ==
  /\ DrawnFlowchart
  /\ \E u \in drawnIds : \E v \in drawnIds : isTreeEdge(u, v) /\ isBackEdgeOfDecision(u, v)

\* ------------------------------------------------------ claims on the levels

\* The nodes that edges lead to from the nodes of a set, and the nodes
\* reached from a set in one step or more, at most steps steps being needed.
successorsOf(edgeList, ids) ==
  {edgeList[k].target : k \in {j \in DOMAIN edgeList : edgeList[j].source \in ids}}

RECURSIVE reachedFrom(_, _, _)
reachedFrom(edgeList, ids, steps) ==
  IF steps = 0 THEN {}
  ELSE successorsOf(edgeList, ids)
         \cup reachedFrom(edgeList, successorsOf(edgeList, ids), steps - 1)

isAcyclic(nodeList, edgeList) ==
  \A k \in DOMAIN nodeList :
    nodeList[k].id \notin reachedFrom(edgeList, {nodeList[k].id}, Len(nodeList))

greatest(numbers) == CHOOSE n \in numbers : \A m \in numbers : m <= n

\* The number of edges of the longest path to a node from a node without
\* incoming edge, in an acyclic graph.
RECURSIVE longestPath(_, _)
longestPath(edgeList, id) ==
  IF inEdgesOf(edgeList, id) = <<>> THEN 0
  ELSE 1 + greatest({longestPath(edgeList, inEdgesOf(edgeList, id)[k]) :
                       k \in DOMAIN inEdgesOf(edgeList, id)})

treeChildrenIn(id) == drawing.layout.treeChildren[id]
\* The column of a node as Step 5 reads it.
columnOf(id) == colOrZero(drawing.layout.nodeCol[id])
sameColumn(a, b) == a[1] * b[2] = b[1] * a[2]
childColumns(id) == [k \in DOMAIN treeChildrenIn(id) |-> columnOf(treeChildrenIn(id)[k])]

\* C22: after the columns are assigned, every node with two or more tree
\* children has the column midway between the smallest and the largest
\* column of its tree children.
C22_Midpoint ==
  DrawnFlowchart =>
    \A id \in drawnIds :
      Len(treeChildrenIn(id)) >= 2 =>
        sameColumn(columnOf(id),
                   midpoint(minOf(childColumns(id)), maxOf(childColumns(id))))


\* A node below a branching node, with a leaf and a branching node as its
\* tree children: A has column 1, the center of its span of three columns,
\* while its children C and D have the columns 0 and 3/2.
C22_CenterOfSpan ==
  /\ input = NestedBranches /\ pc = "drawn"
  /\ treeChildrenIn(<<"A">>) = <<<<"C">>, <<"D">>>>
  /\ sameColumn(columnOf(<<"A">>), whole(1))
  /\ sameColumn(columnOf(<<"C">>), whole(0))
  /\ sameColumn(columnOf(<<"D">>), <<3, 2>>)

\* C23: after the columns are assigned, every node with exactly one tree
\* child has the column of that child, also when the child is the tree
\* child of another node and when the node lies below a branching node.
C23_SingleChild ==
  DrawnFlowchart =>
    \A id \in drawnIds :
      Len(treeChildrenIn(id)) = 1 =>
        sameColumn(columnOf(id), columnOf(treeChildrenIn(id)[1]))

\* The same for a node whose one tree child is the tree child of no other
\* node, in a flowchart whose nodes were all visited and whose columns are
\* all numbers.
C23_UnsharedChild ==
  DrawnFlowchart /\ drawnIds \subseteq drawing.layout.visited
                 /\ (\A id \in drawnIds : isNumber(drawing.layout.nodeCol[id])) =>
    \A id \in drawnIds :
      /\ Len(treeChildrenIn(id)) = 1
      /\ \A other \in drawnIds \ {id} :
           \A k \in DOMAIN treeChildrenIn(other) :
             treeChildrenIn(other)[k] # treeChildrenIn(id)[1]
      => sameColumn(columnOf(id), columnOf(treeChildrenIn(id)[1]))

\* Two branches that merge: B and C below the branching node A both have
\* Stop as their one tree child; Stop stands below B, and C one column
\* to the right.
C23_Merge ==
  /\ input = <<"f", "l", "o", "w", "c", "h", "a", "r", "t", " ", "T", "D", "\n", "A", " ", "-", "-", ">", " ", "B", "\n", "A", " ", "-", "-", ">", " ", "C">> /\ pc = "drawn"
  /\ treeChildrenIn(<<"B">>) = <<<<"S", "t", "o", "p">>>> /\ treeChildrenIn(<<"C">>) = <<<<"S", "t", "o", "p">>>>
  /\ sameColumn(columnOf(<<"S", "t", "o", "p">>), columnOf(<<"B">>))
  /\ sameColumn(columnOf(<<"C">>), plusWhole(columnOf(<<"S", "t", "o", "p">>), 1))

\* ---------------------------------------------------- claims on positions

positionOf(id) == drawing.layout.positions[id]
samePlace(a, b) == positionOf(a).x = positionOf(b).x /\ positionOf(a).y = positionOf(b).y

\* C27: the layout of a flowchart gives no two distinct nodes the same x
\* and y, also when several nodes without incoming edge lead into one node.
C27_DistinctPlaces ==
  DrawnFlowchart =>
    \A a \in drawnIds : \A b \in drawnIds : a # b => ~samePlace(a, b)

\* Start and B have no incoming edge and both lead into C: B inherits the
\* column of C, which stands below Start, and both are at level 0.
C27_SharedSuccessor ==
  /\ input = SharedSuccessor /\ pc = "drawn"
  /\ levelOf(<<"S", "t", "a", "r", "t">>) = 0 /\ levelOf(<<"B">>) = 0
  /\ sameColumn(columnOf(<<"S", "t", "a", "r", "t">>), columnOf(<<"B">>))
  /\ samePlace(<<"S", "t", "a", "r", "t">>, <<"B">>)

\* With Start synthesized, or any single node without incoming edge, the
\* places are distinct.
C27_SingleRoot ==
  DrawnFlowchart /\ Len(startNodesOf(drawing.nodes, drawing.edges)) <= 1 =>
    \A a \in drawnIds : \A b \in drawnIds : a # b => ~samePlace(a, b)

\* ------------------------------------------------------ claims on subgraphs

ScansFlowchartLine == pc = "flowchart" /\ i < Len(lines)
scannedLine == trim(lines[i + 1])
IsSubgraphLine(line) == startsWith(line, KwSubgraph) /\ exec(line, subgraphPattern).ok
IsSkippedLine(line) == line = <<>> \/ startsWith(line, Comment)
IsPrefix(a, b) == Len(a) <= Len(b) /\ SubSeq(b, 1, Len(a)) = a

\* A subgraph line opens an empty group; the group that was open is
\* neither sealed nor kept.
OpensGroup ==
  /\ currentSubgraph' # nullSubgraph
  /\ currentSubgraph'.nodes = <<>>
  /\ subgraphs' = subgraphs

\* An end line seals the open group, if there is one, and leaves none open.
SealsGroup ==
  /\ currentSubgraph' = nullSubgraph
  /\ subgraphs' = IF currentSubgraph # nullSubgraph
                  THEN Append(subgraphs, currentSubgraph) ELSE subgraphs

\* Any other line leaves the sealed groups as they are and opens none; the
\* members it records are appended to the group that is open.
RecordsMembers ==
  /\ subgraphs' = subgraphs
  /\ IF currentSubgraph = nullSubgraph THEN currentSubgraph' = nullSubgraph
     ELSE /\ currentSubgraph' # nullSubgraph
          /\ currentSubgraph'.id = currentSubgraph.id
          /\ currentSubgraph'.label = currentSubgraph.label
          /\ IsPrefix(currentSubgraph.nodes, currentSubgraph'.nodes)
          /\ \A k \in DOMAIN currentSubgraph'.nodes :
               k > Len(currentSubgraph.nodes) => has(nodes', currentSubgraph'.nodes[k])

\* C24: in the flowchart scanner one group at most is open: a subgraph
\* line opens a group and drops the open one without sealing it; an end
\* line appends the open group to the sealed ones and leaves none open,
\* and does nothing when none is open; the return value holds the sealed
\* groups only; a line records members only in the group open then.
C24_SubgraphLifecycle ==
  [][/\ ScansFlowchartLine /\ ~IsSkippedLine(scannedLine) =>
          IF IsSubgraphLine(scannedLine) THEN OpensGroup
          ELSE IF scannedLine = KwEnd THEN SealsGroup
          ELSE RecordsMembers
     /\ pc = "flowchart" /\ i >= Len(lines) => result'.subgraphs = subgraphs]_vars

\* subgraph S, subgraph T [x], A --> B and end have been scanned: T alone
\* is sealed, with A and B, and no group is open.
C24_Witness ==
  /\ pc = "flowchart"
  /\ i = 5
  /\ lines = <<<<"f", "l", "o", "w", "c", "h", "a", "r", "t", " ", "L", "R">>, <<"s", "u", "b", "g", "r", "a", "p", "h", " ", "S">>, <<"s", "u", "b", "g", "r", "a", "p", "h", " ", "T", " ", "[", "x", "]">>, <<"A", " ", "-", "-", ">", " ", "B">>, <<"e", "n", "d">>>>
  /\ currentSubgraph = nullSubgraph
  /\ Len(subgraphs) = 1
  /\ subgraphs[1].id = <<"T">> /\ subgraphs[1].nodes = <<<<"A">>, <<"B">>>>

\* A group left open at the end of the input is not returned.
C24_LeftOpen ==
  /\ pc = "done"
  /\ lines = <<<<"f", "l", "o", "w", "c", "h", "a", "r", "t", " ", "L", "R">>, <<"s", "u", "b", "g", "r", "a", "p", "h", " ", "S">>, <<"A", " ", "-", "-", ">", " ", "B">>>>
  /\ currentSubgraph # nullSubgraph
  /\ result.subgraphs = <<>>

NoDuplicates(list) == \A j, k \in DOMAIN list : j # k => list[j] # list[k]

\* C25: the member list of every sealed subgraph holds no node id twice,
\* whatever connection lines and node declarations were scanned inside it.
C25_MembersOnce ==
  \A k \in DOMAIN subgraphs : NoDuplicates(subgraphs[k].nodes)

\* The members that connection lines record are recorded once: a group
\* sealed after connection lines alone holds no node id twice.
C25_ConnectionsOnce ==
  (\A k \in 1..i : k > 1 => exec(trim(lines[k]), nodeDefPattern).ok = FALSE) =>
    \A k \in DOMAIN subgraphs : NoDuplicates(subgraphs[k].nodes)

\* A group sealed after the same connection line was scanned twice in it.
C25_Repeated ==
  /\ pc = "flowchart"
  /\ i = 5
  /\ lines = <<<<"f", "l", "o", "w", "c", "h", "a", "r", "t", " ", "L", "R">>, <<"s", "u", "b", "g", "r", "a", "p", "h", " ", "S">>, <<"A", " ", "-", "-", ">", " ", "B">>, <<"A", " ", "-", "-", ">", " ", "B">>, <<"e", "n", "d">>>>
  /\ subgraphs = <<[id |-> <<"S">>, label |-> <<"S">>, nodes |-> <<<<"A">>, <<"B">>>>]>>

\* ------------------------------------------------------- claims on mindmaps

ScansMindmapLine == pc = "mindmap" /\ i < Len(lines) /\ trim(lines[i + 1]) # <<>>

\* The number of white space characters a line begins with.
RECURSIVE leadingWhiteSpace(_)
leadingWhiteSpace(line) ==
  IF line # <<>> /\ Head(line) \in SpaceChars THEN 1 + leadingWhiteSpace(Tail(line)) ELSE 0

depthOf(line) == leadingWhiteSpace(line) \div 2

\* The positions in nodes of the nodes of a depth, and the last of them.
atDepth(depth) == {k \in DOMAIN nodes : nodes[k].level = depth}
lastAtDepth(depth) == CHOOSE k \in atDepth(depth) : \A j \in atDepth(depth) : j <= k

incomingEdges(edgeList, id) == {k \in DOMAIN edgeList : edgeList[k].target = id}

\* The line adds one node, of the depth of the line and with an id no
\* earlier node has.
AddsNode ==
  /\ Len(nodes') = Len(nodes) + 1
  /\ SubSeq(nodes', 1, Len(nodes)) = nodes
  /\ nodes'[Len(nodes')].level = depthOf(lines[i + 1])
  /\ \A k \in DOMAIN nodes : nodes[k].id # nodes'[Len(nodes')].id

\* The line adds the one edge from the last node of the depth above to the
\* new node, when the depth is not 0 and there is such a node, and no edge
\* otherwise.
AddsParentEdge ==
  IF depthOf(lines[i + 1]) > 0 /\ atDepth(depthOf(lines[i + 1]) - 1) # {}
  THEN /\ Len(edges') = Len(edges) + 1
       /\ SubSeq(edges', 1, Len(edges)) = edges
       /\ edges'[Len(edges')].source = nodes[lastAtDepth(depthOf(lines[i + 1]) - 1)].id
       /\ edges'[Len(edges')].target = nodes'[Len(nodes')].id
  ELSE edges' = edges

\* C26: in the mindmap scanner every line with content adds one node of
\* depth floor(indent / 2); the node gets one incoming edge, from the last
\* scanned node of the depth above, when its depth is not 0 and such a
\* node exists, and none otherwise.
C26_ParentByDepth ==
  [][ScansMindmapLine => AddsNode /\ AddsParentEdge]_vars

\* The consequence C26 names: every edge leads from a node to a node
\* declared later and one deeper, and no node has two incoming edges or, at
\* depth 0, any.
C26_EdgesDescend ==
  pc = "mindmap" =>
    /\ \A k \in DOMAIN edges :
         \E a, b \in DOMAIN nodes :
           /\ a < b
           /\ nodes[a].id = edges[k].source /\ nodes[b].id = edges[k].target
           /\ nodes[b].level = nodes[a].level + 1
    /\ \A b \in DOMAIN nodes :
         Cardinality(incomingEdges(edges, nodes[b].id))
           <= (IF nodes[b].level = 0 THEN 0 ELSE 1)

\* a (depth 1, no parent), r (depth 0) and b (depth 2) have been scanned:
\* b is linked from a, the last node of depth 1, and r and a have no
\* incoming edge.
C26_Witness ==
  /\ pc = "mindmap"
  /\ i = 4
  /\ lines = <<<<"m", "i", "n", "d", "m", "a", "p">>, <<" ", " ", "a">>, <<"r">>, <<" ", " ", " ", " ", "b">>>>
  /\ Len(nodes) = 3
  /\ Len(edges) = 1
  /\ edges[1].source = nodes[1].id /\ edges[1].target = nodes[3].id

\* ------------------------------------------------ claims on mindmap layout

DrawnMindmap == pc = "drawn" /\ drawing.converted /\ drawing.type = "mindmap"

\* The node was placed by positionNode: positions has an entry for it.
isPlaced(id) == id \in DOMAIN drawing.layout.positions

\* The geometry written for the k-th node of the drawn mindmap.
nodeCellOf(k) ==
  CHOOSE c \in Range(drawing.cells) : c.kind = "node" /\ c.id = drawing.nodes[k].id

sameGeometry(j, k) == nodeCellOf(j).x = nodeCellOf(k).x /\ nodeCellOf(j).y = nodeCellOf(k).y

\* C30: every node of a parsed mindmap, the nodes without parent after the
\* first and their descendants included, is placed by the recursive tree
\* layout, none gets the default position, and no two nodes get the same
\* position.
C30_AllPlaced ==
  DrawnMindmap =>
    /\ \A k \in DOMAIN drawing.nodes : isPlaced(drawing.nodes[k].id)
    /\ \A j \in DOMAIN drawing.nodes : \A k \in DOMAIN drawing.nodes :
          j # k => ~sameGeometry(j, k)

\* The same for the mindmaps with one node without parent.
C30_OneRoot ==
  DrawnMindmap /\ Len(startNodesOf(drawing.nodes, drawing.edges)) = 1 =>
    /\ \A k \in DOMAIN drawing.nodes : isPlaced(drawing.nodes[k].id)
    /\ \A j \in DOMAIN drawing.nodes : \A k \in DOMAIN drawing.nodes :
          j # k => ~sameGeometry(j, k)

\* A second node without parent and its child were drawn at the default
\* position, both of them.
C30_SecondRoot ==
  /\ DrawnMindmap
  /\ input = <<"m", "i", "n", "d", "m", "a", "p", "\n", "r", "\n", "r", "\n", " ", " ", "a">>
  /\ Len(drawing.nodes) = 3
  /\ isPlaced(drawing.nodes[1].id)
  /\ ~isPlaced(drawing.nodes[2].id) /\ ~isPlaced(drawing.nodes[3].id)
  /\ drawing.edges[1].source = drawing.nodes[2].id
  /\ nodeCellOf(2).x = mindmapDefaultPosition.x /\ nodeCellOf(2).y = mindmapDefaultPosition.y
  /\ sameGeometry(2, 3)

\* ------------------------------------------- claims on sequence diagrams

ScansSequenceLine == pc = "sequence" /\ i < Len(lines)

\* A line of the form From ARROW To : text, read from its first character:
\* two words around one of the four arrows, a colon and a text.
messageForm ==
  Re(<<Open(1), Plus(WordChars), Close(1), Star(SpaceChars),
       Open(2), Alt(<<<<"-", ">", ">">>, <<"-", ">">>, <<"-", "-", ">", ">">>, <<"-", "-", ">">>>>), Close(2), Star(SpaceChars),
       Open(3), Plus(WordChars), Close(3), Star(SpaceChars), Lit(<<":">>),
       Star(SpaceChars), Open(4), NotPlus(LineBreaks), Close(4)>>, 4)

readMessage(line) == exec(line, messageForm)
IsMessageLine(line) == readMessage(line).ok /\ readMessage(line).start = 1

\* The line appends the one message it reads and no participant.
AppendsMessage(line) ==
  /\ nodes' = nodes
  /\ Len(edges') = Len(edges) + 1
  /\ SubSeq(edges', 1, Len(edges)) = edges
  /\ edges'[Len(edges')].from = readMessage(line).v[1]
  /\ edges'[Len(edges')].to = readMessage(line).v[3]
  /\ edges'[Len(edges')].message = readMessage(line).v[4]

\* C28: in the sequence scanner every line From ARROW To : text, with one
\* of the arrows ->, ->>, --> and -->>, appends one message with that from,
\* to and text and adds no participant, whatever the text is.
C28_MessageLines ==
  [][ScansSequenceLine /\ IsMessageLine(trim(lines[i + 1]))
       => AppendsMessage(trim(lines[i + 1]))]_vars

namesParticipant(line) ==
  \/ exec(line, declarationPattern(KwParticipant)).ok
  \/ exec(line, declarationPattern(KwActor)).ok

\* The same for the lines in which neither of the words participant and
\* actor is followed by another word.
C28_PlainText ==
  [][ScansSequenceLine /\ IsMessageLine(trim(lines[i + 1]))
       /\ ~namesParticipant(trim(lines[i + 1]))
       => AppendsMessage(trim(lines[i + 1]))]_vars

\* A message whose text names a participant was scanned as a declaration.
C28_TextDeclares ==
  /\ input = TextDeclares /\ pc = "done"
  /\ result.edges = <<>>
  /\ Len(result.nodes) = 1 /\ result.nodes[1].id = <<"C">>

\* --------------------------------------- claims on the ends of a relationship

ScansERLine == pc = "erDiagram" /\ i < Len(lines)

\* The step appends a relationship: the line was recognized as one.
RecognizedAsRelationship == ScansERLine /\ Len(edges') = Len(edges) + 1

\* The identifier a text begins with and the identifier a text ends with.
RECURSIVE leadingWord(_)
leadingWord(text) ==
  IF text # <<>> /\ Head(text) \in WordChars
  THEN <<Head(text)>> \o leadingWord(Tail(text)) ELSE <<>>

RECURSIVE trailingWord(_)
trailingWord(text) ==
  IF text # <<>> /\ text[Len(text)] \in WordChars
  THEN trailingWord(SubSeq(text, 1, Len(text) - 1)) \o <<text[Len(text)]>> ELSE <<>>

\* The text before the first colon of a line, and the identifier that ends it.
RECURSIVE beforeColon(_)
beforeColon(text) ==
  IF text = <<>> \/ Head(text) = ":" THEN <<>>
  ELSE <<Head(text)>> \o beforeColon(Tail(text))

wordBeforeColon(line) == trailingWord(trimEnd(beforeColon(line)))

newEntities == {nodes'[k].id : k \in DOMAIN nodes'} \ {nodes[k].id : k \in DOMAIN nodes}

EndsOfLine(line) ==
  /\ edges'[Len(edges')].source = leadingWord(line)
  /\ edges'[Len(edges')].target = wordBeforeColon(line)
  /\ newEntities \subseteq {leadingWord(line), wordBeforeColon(line)}

\* C29: whenever the ER scanner recognizes a line as a relationship, the
\* source is the identifier the line begins with and the target is the
\* identifier just before the colon, and every entity the line creates is
\* one of the two: none comes from a piece of a cardinality token.
C29_RelationshipEnds ==
  [][RecognizedAsRelationship => EndsOfLine(trim(lines[i + 1]))]_vars

\* The same for the lines the relationship pattern matches from their
\* first character.
C29_MatchedFromStart ==
  [][RecognizedAsRelationship /\ exec(trim(lines[i + 1]), relPattern).start = 1
       => EndsOfLine(trim(lines[i + 1]))]_vars

\* The line A }o--|| B : x was read as a relationship of an entity o.
C29_TokenPiece ==
  /\ pc = "done"
  /\ result.type = "erDiagram"
  /\ input = <<"e", "r", "D", "i", "a", "g", "r", "a", "m", "\n", "A", " ", "}", "o", "-", "-", "|", "|", " ", "B", " ", ":", " ", "x">>
  /\ Len(result.edges) = 1
  /\ result.edges[1].source = <<"o">> /\ result.edges[1].target = <<"B">>
  /\ has(result.nodes, <<"o">>) /\ ~has(result.nodes, <<"A">>)

====
